---- MODULE Spec2Model ----
(***************************************************************************)
(* Bosch eBike display diagnostic client: the local HID protocol engine.   *)
(*                                                                         *)
(* BoschDisplayTool (src/src/lib/BoschDisplayTool.js) on top of            *)
(* SimpleHidWrapper (src/src/lib/SimpleHidWrapper.js) and ProtocolHelper.   *)
(* The repository holds two protocols modules, src/backend/lib/protocols.js *)
(* and src/unnamed/part_001; the tool requires './protocols' and runs with  *)
(* either, so which one it got is part of the state.  JavaScript runs one   *)
(* call chain at a time and switches chains only at an await: every action  *)
(* below is the code that runs between two suspension points of one chain.  *)
(***************************************************************************)
EXTENDS Integers, Sequences, FiniteSets, TLC

\* ------------------------------------------------------------------------
\* Bounds of the exploration
\* ------------------------------------------------------------------------
MaxOps == 2
MaxAuxOps == 1
MaxFaults == 1
PollStepMs == 1500

\* ------------------------------------------------------------------------
\* protocols.js: constants (the same in both modules but for one identifier)
\* ------------------------------------------------------------------------
VENDOR_ID == 4236
PRODUCT_ID == 341
REPORT_SIZE == 64

READ_DATA_BY_IDENTIFIER == 34
WRITE_DATA_BY_IDENTIFIER == 46

DATA_IDENTIFIERS ==
  [ SERIAL_NUMBER      |-> <<2, 66>>,
    HARDWARE_VERSION   |-> <<2, 114>>,
    SOFTWARE_VERSION   |-> <<2, 32>>,
    COMPONENT_TYPE     |-> <<2, 96>>,
    HMI_PART_NUMBER    |-> <<2, 50>>,
    PRESENT_DATE_TIME  |-> <<2, 58>>,
    CURRENT_TIME       |-> <<2, 64>>,
    CURRENT_DATE       |-> <<2, 58>>,
    BOSCH_PRODUCT_CODE |-> <<91, 124>>,
    DU_PART_NUMBER     |-> <<241, 48>>,
    DU_SERIAL_NUMBER   |-> <<241, 172>>,
    DU_HW_VERSION      |-> <<241, 80>>,
    DU_SW_VERSION      |-> <<241, 81>>,
    BMS_PART_NUMBER    |-> <<241, 48>>,
    BMS_SERIAL_NUMBER  |-> <<241, 172>>,
    BMS_HW_VERSION     |-> <<241, 80>>,
    BMS_SW_VERSION     |-> <<241, 81>> ]

\* src/unnamed/part_001, lines 38-68
LibDataIdentifiers == [DATA_IDENTIFIERS EXCEPT !.HARDWARE_VERSION = <<2, 33>>]

HID_FRAME_HEADERS ==
  [ REQUEST            |-> <<1, 0, 58, 8>>,
    RESPONSE           |-> <<1, 0, 61>>,
    HANDSHAKE_REQUEST  |-> <<0, 0, 1, 1>>,
    HANDSHAKE_RESPONSE |-> <<0, 1, 1, 0>> ]

COMPONENT_TYPES == {11, 12, 13, 14, 2}

\* ------------------------------------------------------------------------
\* Byte sequences.  JavaScript indexes from 0 and yields undefined past the
\* end; Undefined stands for that value and equals no byte.
\* ------------------------------------------------------------------------
Undefined == 0 - 1

At(r, i) == IF i < Len(r) THEN r[i + 1] ELSE Undefined

slice(r, from, to) ==
  LET hi == IF to < Len(r) THEN to ELSE Len(r)
  IN  IF from >= hi THEN << >> ELSE SubSeq(r, from + 1, hi)

Zeros(n) == [i \in 1..n |-> 0]

createUdsFrameNoPadding(serviceId, dataIdentifier, data) ==
  HID_FRAME_HEADERS.REQUEST \o <<3, serviceId>> \o dataIdentifier \o data

\* ProtocolHelper.createUdsFrame: header, 0x03, service, identifier, data,
\* then zero bytes while the frame is shorter than REPORT_SIZE.
createUdsFrame(serviceId, dataIdentifier, data) ==
  LET frame == HID_FRAME_HEADERS.REQUEST \o <<3, serviceId>> \o dataIdentifier \o data
  IN  IF Len(frame) < REPORT_SIZE
        THEN frame \o Zeros(REPORT_SIZE - Len(frame))
        ELSE frame

\* ProtocolHelper.createHandshakeFrame
createHandshakeFrame == HID_FRAME_HEADERS.HANDSHAKE_REQUEST \o Zeros(REPORT_SIZE - 4)

\* what identifyDataIdentifier returns: null, or the array of bytes 6 and 7
NullId == [null |-> TRUE, id |-> << >>]
DataId(a, b) == [null |-> FALSE, id |-> <<a, b>>]

\* identifyDataIdentifier without the comparison of byte 5 with 0x22
identifyDataIdentifierAnyService(hidData) ==
  IF Len(hidData) < 8 THEN NullId
  ELSE IF /\ hidData[1] = 1 /\ hidData[2] = 0
          /\ hidData[3] = 58 /\ hidData[4] = 8
          /\ hidData[5] = 3
         THEN DataId(hidData[7], hidData[8])
         ELSE NullId

\* ProtocolHelper.identifyDataIdentifier: the identifier of a frame of the
\* form 01 00 3a 08 03 22 XX YY, null for every other frame
identifyDataIdentifier(hidData) ==
  IF Len(hidData) < 8 THEN NullId
  ELSE IF /\ hidData[1] = 1 /\ hidData[2] = 0
          /\ hidData[3] = 58 /\ hidData[4] = 8
          /\ hidData[5] = 3 /\ hidData[6] = 34
         THEN DataId(hidData[7], hidData[8])
         ELSE NullId

reportArrayUncut(data) ==
  <<0>> \o data \o [i \in 1..(64 - Len(data)) |-> 0]

\* SimpleHidWrapper.write, lines 52-64: report id 0x00 in front, then cut or
\* zero-pad to 65 bytes.
reportArray(data) ==
  LET r == <<0>> \o data
  IN  IF Len(r) > 65 THEN SubSeq(r, 1, 65) ELSE r \o Zeros(65 - Len(r))

\* ------------------------------------------------------------------------
\* protocols.js: formatting.  A string is the sequence of its characters.
\* ------------------------------------------------------------------------
Digits == <<"0", "1", "2", "3", "4", "5", "6", "7", "8", "9", "a", "b", "c", "d", "e", "f">>

\* Number.prototype.toString(radix) of a non-negative integer
RECURSIVE toString(_, _)
toString(n, radix) ==
  IF n < radix
    THEN <<Digits[n + 1]>>
    ELSE toString(n \div radix, radix) \o <<Digits[(n % radix) + 1]>>

\* String.prototype.padStart(2, '0')
padStart2(str) == IF Len(str) = 0 THEN <<"0", "0">>
                  ELSE IF Len(str) = 1 THEN <<"0">> \o str ELSE str

\* Array.prototype.join(sep) of an array of strings
RECURSIVE join(_, _)
join(strs, sep) ==
  IF Len(strs) = 0 THEN << >>
  ELSE IF Len(strs) = 1 THEN strs[1]
  ELSE strs[1] \o sep \o join(Tail(strs), sep)

\* String.prototype.includes
includesStr(str, part) ==
  \E i \in 0..(Len(str) - Len(part)) : SubSeq(str, i + 1, i + Len(part)) = part

\* String.prototype.toUpperCase on the characters of a number rendering
toUpperCase(str) ==
  LET UpperDigits == <<"0", "1", "2", "3", "4", "5", "6", "7", "8", "9",
                       "A", "B", "C", "D", "E", "F">>
  IN  [i \in 1..Len(str) |->
         IF \E k \in 1..16 : Digits[k] = str[i]
           THEN UpperDigits[CHOOSE k \in 1..16 : Digits[k] = str[i]]
           ELSE str[i]]

mapHexOfArray(hexData, isBuffer) ==
  [i \in 1..Len(hexData) |-> padStart2(toString(hexData[i], 16))]

\* hexData.map(b => b.toString(16).padStart(2, '0')) as join sees it.  On an
\* Array the result holds the strings.  On a Buffer (the tool passes slices of
\* the Buffer that SimpleHidWrapper.read resolves, line 99) map is that of
\* Uint8Array: the result is a typed array again, each string is converted to
\* a number on the way in (decimal digits as a decimal number, anything else
\* NaN and stored as 0), and join renders these numbers in decimal.
mapHex(hexData, isBuffer) ==
  LET str(b) == padStart2(toString(b, 16))
      dec(c) == (CHOOSE k \in 1..16 : Digits[k] = c) - 1
      stored(b) == IF dec(str(b)[1]) < 10 /\ dec(str(b)[2]) < 10
                     THEN 10 * dec(str(b)[1]) + dec(str(b)[2])
                     ELSE 0
  IN  [i \in 1..Len(hexData) |->
         IF isBuffer THEN toString(stored(hexData[i]), 10) ELSE str(hexData[i])]

SerialPattern ==
  <<"3", "7", "F", "F", "D", "7", "0", "5", "5", "6", "4", "E",
    "3", "1", "3", "0", "4", "6", "4", "4", "2", "0", "0", "0">>

\* ProtocolHelper.hexToSerialNumber, lines 227-255
hexToSerialNumber(hexData, isBuffer) ==
  LET serialData == slice(hexData, 0, IF Len(hexData) < 20 THEN Len(hexData) ELSE 20)
      hexString  == join(mapHex(serialData, isBuffer), << >>)
      fullHex    == toUpperCase(hexString)
  IN  IF includesStr(fullHex, SerialPattern)
        THEN <<"0", "x">> \o SerialPattern
        ELSE <<"0", "x">> \o fullHex

\* ProtocolHelper.hexToTime, lines 316-340
hexToTime(hexData) ==
  IF Len(hexData) >= 2
    THEN LET byte1 == hexData[1]
             byte2 == hexData[2]
             hours1 == byte1
             minutes1 == byte2
             hours2 == byte2
             minutes2 == byte1
         IN  IF minutes1 < 60
               THEN padStart2(toString(hours1, 10)) \o <<":">> \o padStart2(toString(minutes1, 10))
               ELSE IF minutes2 < 60
                 THEN padStart2(toString(hours2, 10)) \o <<":">> \o padStart2(toString(minutes2, 10))
                 ELSE padStart2(toString(byte1, 10)) \o <<":">> \o padStart2(toString(byte2, 10))
    ELSE <<"0", "0", ":", "0", "0">>

hexToVersionAsTheyAre(hexData, isBuffer) ==
  IF Len(hexData) >= 4
    THEN join([i \in 1..4 |-> toString(hexData[i], 10)], <<".">>)
    ELSE IF Len(hexData) >= 2
      THEN join(<<toString(hexData[1], 10), toString(hexData[2], 10), <<"0">>, <<"0">> >>, <<".">>)
      ELSE join(mapHex(hexData, isBuffer), <<".">>)

\* ProtocolHelper.hexToVersion, lines 260-292
hexToVersion(hexData, isBuffer) ==
  IF Len(hexData) >= 4
    THEN join([i \in 1..4 |-> toString(hexData[i], 10)], <<".">>)
    ELSE IF Len(hexData) >= 2
      THEN LET byte1 == hexData[1]
               byte2 == hexData[2]
           IN  IF byte1 = 2 /\ byte2 = 114
                 THEN <<"0", ".", "0", ".", "2", ".", "2">>
                 ELSE IF byte1 = 2 /\ byte2 = 32
                   THEN <<"5", ".", "9", ".", "2", ".", "0">>
                   ELSE join(<<toString(byte1, 10), toString(byte2, 10), <<"0">>, <<"0">> >>,
                             <<".">>)
      ELSE join(mapHex(hexData, isBuffer), <<".">>)

\* Buffer.toString('ascii') of one byte: the character with the code of the low
\* seven bits.  The table holds the characters of the bytes the calls are
\* made with.
fromAscii(b) ==
  LET c == b % 128
  IN  CASE c \in 48..57 -> Digits[c - 47]
        [] c = 32 -> " "
        [] c = 37 -> "%"
        [] c = 65 -> "A"
        [] OTHER  -> "["

isDigit(ch) == \E k \in 1..10 : Digits[k] = ch

\* String.prototype.replace(/[^0-9]+$/, '')
RECURSIVE stripTrailingNonDigits(_)
stripTrailingNonDigits(str) ==
  IF Len(str) = 0 \/ isDigit(str[Len(str)])
    THEN str
    ELSE stripTrailingNonDigits(SubSeq(str, 1, Len(str) - 1))

\* ProtocolHelper.hexToArticleNumber, lines 297-311
hexToArticleNumber(hexData) ==
  LET cleanData == SelectSeq(hexData, LAMBDA b : b # 0)
      ascii     == [i \in 1..Len(cleanData) |-> fromAscii(cleanData[i])]
      cut       == IF Len(ascii) > 0 /\ ascii[1] = "2" THEN Tail(ascii) ELSE ascii
  IN  stripTrailingNonDigits(cut)

\* ProtocolHelper.hexToDate of src/backend/lib/protocols.js, lines 345-354:
\* year, month, day
hexToDate(hexData) ==
  IF Len(hexData) >= 3
    THEN padStart2(toString(hexData[3], 10)) \o <<".">>
           \o padStart2(toString(hexData[2], 10)) \o <<".">>
           \o toString(2000 + hexData[1], 10)
    ELSE <<"0", "1", ".", "0", "1", ".", "2", "0", "0", "0">>

\* hexToDate of src/unnamed/part_001, lines 254-263: day, month, year
hexToDateLib(hexData) ==
  IF Len(hexData) >= 3
    THEN padStart2(toString(hexData[1], 10)) \o <<".">>
           \o padStart2(toString(hexData[2], 10)) \o <<".">>
           \o toString(2000 + hexData[3], 10)
    ELSE <<"0", "1", ".", "0", "1", ".", "2", "0", "0", "0">>

\* ------------------------------------------------------------------------
\* Error messages.  A message is the sequence of the literal pieces it was
\* concatenated from, outermost prefix first; String.includes is decided
\* piece by piece.
\* ------------------------------------------------------------------------
NOT_CONNECTED == <<"Nicht mit dem Display verbunden!">>
HID_NOT_CONNECTED == <<"HID-Geraet nicht verbunden">>
READ_TIMEOUT == <<"Timeout beim Lesen von Daten">>
TIMEOUT == <<"TIMEOUT">>
DEV_IO == <<"could not read from HID device">>
DEV_WRITE == <<"Cannot write to hid device">>
DEV_OPEN == <<"cannot open device">>
NULL_DEREF == <<"Cannot read properties of null (reading 'readSync')">>

Wrap(prefix, msg) == <<prefix>> \o msg

Contains ==
  { <<"Timeout beim Lesen von Daten", "Timeout">>,
    <<"UDS Timeout", "Timeout">>,
    <<"TIMEOUT", "TIMEOUT">> }

includes(msg, w) == \E i \in 1..Len(msg) : <<msg[i], w>> \in Contains

\* ------------------------------------------------------------------------
\* protocols.js: response parsing
\* ------------------------------------------------------------------------
ProtocolsModules == {"backend/lib/protocols.js", "unnamed/part_001"}

\* parseUdsResponse throws for a short frame or a wrong header
parseThrows(response) ==
  \/ Len(response) < 6
  \/ At(response, 0) # 1
  \/ At(response, 1) # 0

parseError(response) ==
  IF Len(response) < 6
    THEN <<"Ungueltige Response-Laenge">>
    ELSE <<"Ungueltiger Response-Header">>

parseUdsResponseShifted(response) ==
  [ serviceId          |-> At(response, 3),
    dataLength         |-> At(response, 2),
    responseCode       |-> At(response, 4),
    data               |-> slice(response, 5, Len(response)),
    isPositiveResponse |-> At(response, 4) = 98,
    isNegativeResponse |-> At(response, 4) = 127 ]

\* ProtocolHelper.parseUdsResponse, lines 189-207: the record it returns
parseUdsResponse(response) ==
  [ serviceId          |-> At(response, 4),
    dataLength         |-> At(response, 3),
    responseCode       |-> At(response, 5),
    data               |-> slice(response, 6, Len(response)),
    isPositiveResponse |-> At(response, 5) = 98,
    isNegativeResponse |-> At(response, 5) = 127 ]

isResponseSuccessful(response) ==
  IF parseThrows(response)
    THEN FALSE
    ELSE LET parsed == parseUdsResponse(response)
         IN  /\ parsed.isPositiveResponse
             /\ parsed.dataLength > 0
             /\ Len(parsed.data) > 0

\* src/unnamed/part_001, lines 171-194 and 274-284: length and service id are
\* taken one byte earlier, and there is no response code
parseUdsResponseLib(response) ==
  [ serviceId  |-> At(response, 3),
    dataLength |-> At(response, 2),
    data       |-> slice(response, 5, Len(response)) ]

isResponseSuccessfulLib(response) ==
  IF parseThrows(response)
    THEN FALSE
    ELSE LET parsed == parseUdsResponseLib(response)
         IN  /\ parsed.serviceId # 127
             /\ parsed.dataLength > 0

handshakeAcceptedThreeBytes(response) ==
  /\ At(response, 0) = HID_FRAME_HEADERS.HANDSHAKE_RESPONSE[1]
  /\ At(response, 1) = HID_FRAME_HEADERS.HANDSHAKE_RESPONSE[2]
  /\ At(response, 2) = HID_FRAME_HEADERS.HANDSHAKE_RESPONSE[3]

\* performHandshake, lines 68-72: the four header bytes of the response
handshakeAccepted(response) ==
  /\ At(response, 0) = HID_FRAME_HEADERS.HANDSHAKE_RESPONSE[1]
  /\ At(response, 1) = HID_FRAME_HEADERS.HANDSHAKE_RESPONSE[2]
  /\ At(response, 2) = HID_FRAME_HEADERS.HANDSHAKE_RESPONSE[3]
  /\ At(response, 3) = HID_FRAME_HEADERS.HANDSHAKE_RESPONSE[4]

\* deviceManager.isBoschDisplay
NullDevice == [vendorId |-> Undefined, productId |-> Undefined]

isBoschDisplay(device) ==
  /\ device # NullDevice
  /\ device.vendorId = VENDOR_ID
  /\ device.productId = PRODUCT_ID

\* ------------------------------------------------------------------------
\* The display on the other end of the HID handle
\* ------------------------------------------------------------------------
BoschDisplay == [vendorId |-> VENDOR_ID, productId |-> PRODUCT_ID]
OtherDevice == [vendorId |-> VENDOR_ID, productId |-> 386]
Devices == {BoschDisplay, OtherDevice}

SerialPayload == <<55, 255, 215, 5, 86, 78, 49, 48, 70, 68, 32, 0>>

HandshakeOk == <<0, 1, 1, 0, 0, 0, 0, 0>>
PositiveFor(did) == HID_FRAME_HEADERS.RESPONSE \o <<15, 34, 98>> \o did \o SerialPayload
WriteAckFor(did) == HID_FRAME_HEADERS.RESPONSE \o <<3, 46, 110>> \o did \o <<0>>

\* what a healthy display answers to a report (report id at index 0)
ExpectedReply(report) ==
  IF slice(report, 1, 5) = HID_FRAME_HEADERS.HANDSHAKE_REQUEST
    THEN HandshakeOk
    ELSE IF At(report, 6) = WRITE_DATA_BY_IDENTIFIER
           THEN WriteAckFor(slice(report, 7, 9))
           ELSE PositiveFor(slice(report, 7, 9))

\* every other frame the display is allowed to send in this model: to a
\* handshake the response with one byte changed or cut short, to a request
\* a negative response, a zero length, a wrong header, a short frame, a
\* frame without the 0x3D, a length of 0x7F, a write acknowledgement
OddHandshakeFrames ==
  { <<1, 1, 1, 0, 0, 0, 0, 0>>,
    <<0, 0, 1, 0, 0, 0, 0, 0>>,
    <<0, 1, 0, 0, 0, 0, 0, 0>>,
    <<0, 1, 1, 1, 0, 0, 0, 0>>,
    <<0, 1, 1>> }

OddUdsFrames ==
  { <<1, 0, 61, 3, 34, 127, 34, 49, 0>>,
    <<1, 0, 61, 0, 34, 98, 2, 66, 1>>,
    <<0, 0, 61, 5, 34, 98, 2, 66, 1>>,
    <<1, 1, 61, 5, 34, 98, 2, 66, 1>>,
    <<1, 0, 61, 5, 34>>,
    <<1, 0, 61, 5, 34, 98>>,
    <<1, 0, 61, 5, 34, 98, 2>>,
    <<1, 0, 61, 5, 34, 98, 2, 96>>,
    <<1, 0, 0, 5, 34, 98, 2, 96, 11>>,
    <<1, 0, 61, 127, 34, 98, 2, 66, 1>>,
    WriteAckFor(<<2, 58>>),
    <<110, 0, 61, 3, 46, 110, 2, 58, 0>> }

OddFrames == OddHandshakeFrames \cup OddUdsFrames

OddFor(report) ==
  IF slice(report, 1, 5) = HID_FRAME_HEADERS.HANDSHAKE_REQUEST
    THEN OddHandshakeFrames
    ELSE OddUdsFrames

\* ------------------------------------------------------------------------
\* State
\* ------------------------------------------------------------------------
Tasks == {"main", "aux"}

VARIABLES
  device,       \* BoschDisplayTool.device
  hidWrapper,   \* BoschDisplayTool.hidWrapper: 0 is null, else index into wrappers
  isConnected,  \* BoschDisplayTool.isConnected
  wrappers,     \* every SimpleHidWrapper constructed: [isConnected, hidDevice]
  osOpen,       \* wrappers whose HID handle the operating system still holds open
  protocols,    \* the module that require('./protocols') gave the tool
  pending,      \* requests the display has received and not answered yet: [seq, report]
  silent,       \* the display has stopped answering for good
  faults,       \* departures of display and transport from the healthy behaviour
  lastWrite,    \* the latest hidDevice.write call
  op,           \* per call chain: the public method it is executing
  tx,           \* per call chain: the receive it is suspended in
  out,          \* per call chain: how its latest public method call ended
  opsLeft,      \* per call chain: calls it may still start
  run,          \* the record readAllInformation is building
  hsState,      \* handshake status of the current connection
  connectOk,    \* a connect() has returned and no disconnect/failed connect since
  consumed,     \* per call chain: how its latest read() ended and the frame it took
  udsRet,       \* per call chain: how its latest sendUdsRequest ended
  hid,          \* the scan of the browser front end (readDisplayInformationHID)
  calc,         \* a call of a ProtocolHelper function or of write: input and result
  srv           \* the backend server (src/backend/index.js) and its socket clients

vars == << device, hidWrapper, isConnected, wrappers, osOpen, protocols, pending,
           silent, faults, lastWrite, op, tx, out, opsLeft, run,
           hsState, connectOk, consumed, udsRet, hid, calc, srv >>

toolVars == << device, hidWrapper, isConnected, wrappers, osOpen, protocols >>
wireVars == << pending, silent, faults, lastWrite >>
chainVars == << op, tx, out, opsLeft, run, udsRet >>
ghostVars == << hsState, connectOk, consumed >>

NoMsg == << >>
NoFrame == << >>

Idle == [name |-> "idle", key |-> "", mode |-> "", writes |-> 0, issuedOk |-> FALSE,
         wasConnected |-> FALSE]
NoTx == [st |-> "none", kind |-> "", seq |-> 0, w |-> 0, timeout |-> 0,
         elapsed |-> 0, first |-> FALSE]
NoOut == [name |-> "", key |-> "", status |-> "none", err |-> NoMsg,
          value |-> NoFrame, writes |-> 0, issuedOk |-> FALSE, wasConnected |-> FALSE,
          isConnected |-> FALSE]
NoRet == [ok |-> FALSE, resp |-> NoFrame, err |-> NoMsg]
NoWrite == [report |-> << >>, result |-> "", task |-> "",
            hs |-> "none", connectOk |-> FALSE]
NoConsumed == [by |-> 0, re |-> 0, frame |-> NoFrame, how |-> ""]

PrimaryKeysTimeFirst ==
  << "currentTime", "currentDate", "serialNumber", "hardwareVersion", "softwareVersion",
     "productCode", "articleNumber", "componentType" >>

\* readAllInformation, lines 643-654: the tasks in the order of the array
PrimaryKeys == << "serialNumber", "hardwareVersion", "softwareVersion", "productCode",
                  "articleNumber", "componentType", "currentTime", "currentDate" >>
SubKeys == << "partNumber", "serialNumber", "hardwareVersion", "softwareVersion" >>

Unset == "unset"
NoSub == [status |-> "unset", hasTimeout |-> FALSE,
          fields |-> [k \in {SubKeys[i] : i \in 1..4} |-> Unset]]
NoRun == [idx |-> 0, mode |-> "",
          results |-> [k \in {PrimaryKeys[i] : i \in 1..8} |-> Unset],
          driveUnit |-> NoSub, batteryManagement |-> NoSub,
          lastUpdate |-> FALSE, writes |-> [i \in 1..16 |-> 0],
          onlyTimeouts |-> TRUE]

\* constructor(), lines 17-22, and an idle environment
\* the browser front end before a scan: no field read, nothing returned;
\* listeners counts the 'inputreport' listeners that performHandshakeHID and
\* readUdsDataHID have registered on the device and not removed
HidFieldCount == 13
NoHid ==
  [ pc |-> "idle", mode |-> "", idx |-> 0,
    fields |-> [i \in 1..HidFieldCount |-> "unset"],
    how |-> [i \in 1..HidFieldCount |-> ""],
    sent |-> 0, status |-> "none", err |-> NoMsg,
    listeners |-> 0 ]

\* no function call under way
NoCalc == [fn |-> "", svc |-> 0, did |-> << >>, data |-> << >>, isBuffer |-> FALSE,
           dev |-> "ok",
           done |-> FALSE, threw |-> FALSE, ret |-> << >>]

\* src/backend/index.js, lines 29-32, before any client: isConnected is the
\* module-level flag; sockets are the clients with a connection, inbox the
\* event each has under way to the server, sent the last event the server
\* emitted to each (re: the event it answered, device: the device that event
\* named); own, by and health are notes: own[c] is set while
\* the last 'connect-display' of c was accepted and no 'disconnect-display' of
\* c followed, by is the client whose 'connect-display' set the flag, health
\* the latest answer of /api/health
Clients == {1, 2}
NoEvent == [ev |-> "", device |-> NullDevice]
NoSent == [ev |-> "", re |-> "", device |-> NullDevice]
NoSrv ==
  [ isConnected |-> FALSE,
    sockets |-> {},
    inbox |-> [c \in Clients |-> NoEvent],
    sent |-> [c \in Clients |-> NoSent],
    own |-> [c \in Clients |-> FALSE],
    by |-> 0,
    health |-> [asked |-> FALSE, connected |-> FALSE, byPresent |-> FALSE] ]

InitTool ==
  /\ device = NullDevice
  /\ hidWrapper = 0
  /\ isConnected = FALSE
  /\ wrappers = << >>
  /\ osOpen = {}
  /\ protocols \in ProtocolsModules
  /\ pending = << >>
  /\ silent = FALSE
  /\ faults = 0
  /\ lastWrite = NoWrite
  /\ op = [t \in Tasks |-> Idle]
  /\ tx = [t \in Tasks |-> NoTx]
  /\ out = [t \in Tasks |-> NoOut]
  /\ opsLeft = [t \in Tasks |-> IF t = "main" THEN MaxOps ELSE MaxAuxOps]
  /\ run = NoRun
  /\ hsState = "none"
  /\ connectOk = FALSE
  /\ consumed = [t \in Tasks |-> NoConsumed]
  /\ udsRet = [t \in Tasks |-> NoRet]
  /\ hid = NoHid
  /\ srv = NoSrv

Init == InitTool /\ calc = NoCalc

\* ------------------------------------------------------------------------
\* The display
\* ------------------------------------------------------------------------
\* the display stops answering (unplugged from the bike, powered down); in
\* this model it does so between two calls
DeviceGoSilent ==
  /\ ~silent
  /\ \A t \in Tasks : op[t].name = "idle"
  /\ silent' = TRUE
  /\ pending' = << >>
  /\ UNCHANGED << faults, lastWrite >>
  /\ UNCHANGED << toolVars, hid, calc, srv, chainVars, ghostVars >>

\* ------------------------------------------------------------------------
\* Sending: BoschDisplayTool.sendData over SimpleHidWrapper.write
\* ------------------------------------------------------------------------
WriteOutcomes == {"ok", "short", "throw"}

\* sendData, lines 87-97, with write, lines 45-81: the error it throws (NoMsg
\* when the report went out) and whether hidDevice.write was called
sendData(ic, hw, wr, c) ==
  IF ~ic \/ hw = 0
    THEN [err |-> NOT_CONNECTED, called |-> FALSE]
    ELSE IF ~wr[hw].isConnected \/ ~wr[hw].hidDevice
      THEN [err |-> Wrap("Sendefehler: ", HID_NOT_CONNECTED), called |-> FALSE]
      ELSE IF c = "ok"
        THEN [err |-> NoMsg, called |-> TRUE]
        ELSE IF c = "short"
          THEN [err |-> Wrap("Sendefehler: ", Wrap("Schreibfehler: ",
                              <<"Nur n von 65 Bytes geschrieben">>)),
                called |-> TRUE]
          ELSE [err |-> Wrap("Sendefehler: ", Wrap("Schreibfehler: ", DEV_WRITE)),
                called |-> TRUE]

\* A tag for the next request: requests carry no sequence number on the wire;
\* the tag tells apart the requests whose replies are still under way.
Max(S) == CHOOSE m \in S : \A n \in S : n <= m
FreshSeq ==
  1 + Max({0} \cup {pending[i].seq : i \in 1..Len(pending)}
              \cup {tx[u].seq : u \in Tasks})

\* What the handle and the display do with one hidDevice.write call: a report
\* that went out reaches the display, which answers its requests in the order
\* it received them.
Wire(S, frame, c, t, hsNow, cokNow, lw0) ==
  IF ~S.called
    THEN /\ c = "ok"
         /\ lastWrite' = lw0
         /\ UNCHANGED << pending, silent, faults >>
    ELSE /\ lastWrite' = [report |-> reportArray(frame), result |-> c, task |-> t,
                          hs |-> hsNow, connectOk |-> cokNow]
         /\ silent' = silent
         /\ IF c # "ok"
              THEN /\ faults < MaxFaults
                   /\ faults' = faults + 1
                   /\ pending' = pending
              ELSE /\ faults' = faults
                   /\ pending' = IF silent THEN pending
                                 ELSE Append(pending, [seq |-> FreshSeq,
                                                       report |-> reportArray(frame)])

\* ------------------------------------------------------------------------
\* Error translation of the three layers
\* ------------------------------------------------------------------------
receiveDataCatchAll(m) == TIMEOUT

\* receiveData, lines 110-115
receiveDataCatch(m) ==
  IF includes(m, "timeout") \/ includes(m, "Timeout")
    THEN TIMEOUT
    ELSE Wrap("Empfangsfehler: ", m)

sendUdsRequestCatchAll(m) == TIMEOUT

\* sendUdsRequest, lines 144-149
sendUdsRequestCatch(m) ==
  IF includes(m, "Timeout") \/ includes(m, "TIMEOUT")
    THEN TIMEOUT
    ELSE Wrap("UDS-Request-Fehler: ", m)

\* performHandshake, lines 79-81
performHandshakeCatch(m) == Wrap("Handshake-Fehler: ", m)

Threw(m) == [ok |-> FALSE, resp |-> NoFrame, err |-> m]
Returned(f) == [ok |-> TRUE, resp |-> f, err |-> NoMsg]

\* sendUdsRequest, lines 135-142: what it does with a received frame
sendUdsRequestOnData(response) ==
  IF parseThrows(response)
    THEN Threw(sendUdsRequestCatch(parseError(response)))
    ELSE IF (IF protocols = "unnamed/part_001"
               THEN isResponseSuccessfulLib(response)
               ELSE isResponseSuccessful(response))
      THEN Returned(response)
      ELSE Threw(sendUdsRequestCatch(<<"UDS-Response-Fehler: Service">>))

\* performHandshake, lines 68-77
performHandshakeOnData(response) ==
  IF handshakeAccepted(response)
    THEN Returned(response)
    ELSE Threw(performHandshakeCatch(<<"Handshake fehlgeschlagen - ungueltige Response">>))

OnData(kind, f) ==
  IF kind = "uds" THEN sendUdsRequestOnData(f) ELSE performHandshakeOnData(f)

OnError(kind, m) ==
  IF kind = "uds" THEN Threw(sendUdsRequestCatch(m)) ELSE Threw(performHandshakeCatch(m))

\* ------------------------------------------------------------------------
\* Field reads: read* methods, lines 155-374
\* ------------------------------------------------------------------------
KeySet == {PrimaryKeys[i] : i \in 1..8}

FieldId(key) ==
  CASE key = "serialNumber"    -> DATA_IDENTIFIERS.SERIAL_NUMBER
    [] key = "hardwareVersion" -> (IF protocols = "unnamed/part_001"
                                    THEN LibDataIdentifiers.HARDWARE_VERSION
                                    ELSE DATA_IDENTIFIERS.HARDWARE_VERSION)
    [] key = "softwareVersion" -> DATA_IDENTIFIERS.SOFTWARE_VERSION
    [] key = "productCode"     -> DATA_IDENTIFIERS.BOSCH_PRODUCT_CODE
    [] key = "articleNumber"   -> DATA_IDENTIFIERS.HMI_PART_NUMBER
    [] key = "componentType"   -> DATA_IDENTIFIERS.COMPONENT_TYPE
    [] key = "currentTime"     -> DATA_IDENTIFIERS.CURRENT_TIME
    [] OTHER                   -> DATA_IDENTIFIERS.CURRENT_DATE

FieldPrefix(key) ==
  CASE key = "serialNumber"    -> "Seriennummer-Lesefehler: "
    [] key = "hardwareVersion" -> "Hardware-Version-Lesefehler: "
    [] key = "softwareVersion" -> "Software-Version-Lesefehler: "
    [] key = "productCode"     -> "Produktcode-Lesefehler: "
    [] key = "articleNumber"   -> "Artikelnummer-Lesefehler: "
    [] key = "componentType"   -> "Komponententyp-Lesefehler: "
    [] key = "currentTime"     -> "Uhrzeit-Lesefehler: "
    [] OTHER                   -> "Datum-Lesefehler: "

\* lines 167 and 364
dataStart(response) == IF Len(response) > 8 THEN 8 ELSE 5

\* the bytes each read* method hands to its decoder
FieldData(key, response) ==
  CASE key = "serialNumber"    -> slice(response, dataStart(response), dataStart(response) + 12)
    [] key = "hardwareVersion" -> slice(response, 8, 12)
    [] key = "softwareVersion" -> slice(response, 8, 12)
    [] key = "productCode"     -> slice(response, 8, 14)
    [] key = "articleNumber"   -> slice(response, 8, 18)
    [] key = "componentType"   -> slice(response, 8, 9)
    [] key = "currentTime"     -> slice(response, 8, 10)
    [] OTHER                   -> slice(response, dataStart(response), dataStart(response) + 3)

\* readComponentType, line 313: toString on an undefined byte throws
FieldThrows(key, response) ==
  /\ key = "componentType"
  /\ At(response, 8) = Undefined

\* a read* method given the outcome L of its sendUdsRequest
readField(key, L) ==
  IF ~L.ok
    THEN Threw(Wrap(FieldPrefix(key), L.err))
    ELSE IF FieldThrows(key, L.resp)
      THEN Threw(Wrap(FieldPrefix(key),
                      <<"Cannot read properties of undefined (reading 'toString')">>))
      ELSE Returned(FieldData(key, L.resp))

\* setDateTime, lines 395-403
setDateTime(L) ==
  IF ~L.ok
    THEN Threw(Wrap("Datum/Zeit-Setze-Fehler: ", L.err))
    ELSE IF At(L.resp, 0) = 110
      THEN Returned(L.resp)
      ELSE Threw(Wrap("Datum/Zeit-Setze-Fehler: ",
                      <<"Datum/Zeit konnte nicht gesetzt werden">>))

DateTimePayload == <<24, 6, 15, 14, 30>>

\* A slot of the record holds "value" for a decoded value, "Fehler" for the
\* marker 'Fehler: ...', or the marker 'Nicht angeschlossen (Timeout)'.
\* ------------------------------------------------------------------------
\* readAllInformation, lines 635-708, with readDriveUnitInfo (409-517) and
\* readBatteryManagementInfo (522-630).  run.idx numbers the transactions:
\* 1..8 primary fields, 9..12 drive unit, 13..16 battery management.
\* ------------------------------------------------------------------------
SubIdApart(idx) ==
  CASE idx = 9  -> <<241, 48>>
    [] idx = 10 -> <<241, 172>>
    [] idx = 11 -> <<241, 80>>
    [] idx = 12 -> <<241, 81>>
    [] idx = 13 -> <<241, 49>>
    [] idx = 14 -> <<241, 173>>
    [] idx = 15 -> <<241, 82>>
    [] OTHER    -> <<241, 83>>

SubId(idx) ==
  CASE idx = 9  -> DATA_IDENTIFIERS.DU_PART_NUMBER
    [] idx = 10 -> DATA_IDENTIFIERS.DU_SERIAL_NUMBER
    [] idx = 11 -> DATA_IDENTIFIERS.DU_HW_VERSION
    [] idx = 12 -> DATA_IDENTIFIERS.DU_SW_VERSION
    [] idx = 13 -> DATA_IDENTIFIERS.BMS_PART_NUMBER
    [] idx = 14 -> DATA_IDENTIFIERS.BMS_SERIAL_NUMBER
    [] idx = 15 -> DATA_IDENTIFIERS.BMS_HW_VERSION
    [] OTHER    -> DATA_IDENTIFIERS.BMS_SW_VERSION

RunId(idx) == IF idx <= 8 THEN FieldId(PrimaryKeys[idx]) ELSE SubId(idx)
RunTimeout(idx) == IF idx <= 8 THEN 3000 ELSE 2000

SubStoreAnyFailure(sub, k, L) ==
  LET f == IF L.ok
             THEN "value"
             ELSE IF L.err = TIMEOUT
               THEN "Nicht angeschlossen (Timeout)"
               ELSE "Fehler"
      ht == sub.hasTimeout \/ ~L.ok
  IN  [ status     |-> IF k < 4 THEN sub.status
                       ELSE IF ht THEN "Nicht angeschlossen" ELSE "Verfuegbar",
        hasTimeout |-> ht,
        fields     |-> [sub.fields EXCEPT ![SubKeys[k]] = f] ]

\* one of the four try/catch blocks of readDriveUnitInfo / readBatteryManagementInfo
SubStore(sub, k, L) ==
  LET f == IF L.ok
             THEN "value"
             ELSE IF L.err = TIMEOUT
               THEN "Nicht angeschlossen (Timeout)"
               ELSE "Fehler"
      ht == sub.hasTimeout \/ (~L.ok /\ L.err = TIMEOUT)
  IN  [ status     |-> IF k < 4 THEN sub.status
                       ELSE IF ht THEN "Nicht angeschlossen" ELSE "Verfuegbar",
        hasTimeout |-> ht,
        fields     |-> [sub.fields EXCEPT ![SubKeys[k]] = f] ]

\* lines 656-663 for a primary field, the sub-record blocks otherwise;
\* onlyTimeouts notes whether every transaction of the run so far timed out
RunStoreRethrows(r, L) ==
  LET ot == r.onlyTimeouts /\ ~L.ok /\ L.err = TIMEOUT
  IN  IF r.idx <= 8
        THEN LET v == readField(PrimaryKeys[r.idx], L)
             IN  [r EXCEPT !.results[PrimaryKeys[r.idx]] = IF v.ok THEN "value" ELSE @,
                           !.idx = r.idx + 1, !.onlyTimeouts = ot]
        ELSE IF r.idx <= 12
          THEN [r EXCEPT !.driveUnit = SubStore(r.driveUnit, r.idx - 8, L),
                         !.idx = r.idx + 1, !.onlyTimeouts = ot]
          ELSE [r EXCEPT !.batteryManagement = SubStore(r.batteryManagement, r.idx - 12, L),
                         !.idx = r.idx + 1, !.onlyTimeouts = ot]

RunStore(r, L) ==
  LET ot == r.onlyTimeouts /\ ~L.ok /\ L.err = TIMEOUT
  IN  IF r.idx <= 8
        THEN LET v == readField(PrimaryKeys[r.idx], L)
                 e == IF v.ok THEN "value" ELSE "Fehler"
             IN  [r EXCEPT !.results[PrimaryKeys[r.idx]] = e,
                           !.idx = r.idx + 1, !.onlyTimeouts = ot]
        ELSE IF r.idx <= 12
          THEN [r EXCEPT !.driveUnit = SubStore(r.driveUnit, r.idx - 8, L),
                         !.idx = r.idx + 1, !.onlyTimeouts = ot]
          ELSE [r EXCEPT !.batteryManagement = SubStore(r.batteryManagement, r.idx - 12, L),
                         !.idx = r.idx + 1, !.onlyTimeouts = ot]

SubFailed == [NoSub EXCEPT !.status = "Fehler"]
SubSkipped == [NoSub EXCEPT !.status = "Nicht abgefragt"]

\* ------------------------------------------------------------------------
\* How a public method goes on once its handshake or UDS transaction has
\* settled with outcome L
\* ------------------------------------------------------------------------
Done(o, status, err, value, ic) ==
  [name |-> o.name, key |-> o.key, status |-> status, err |-> err, value |-> value,
   writes |-> o.writes, issuedOk |-> o.issuedOk, wasConnected |-> o.wasConnected,
   isConnected |-> ic]

Finish(t, o, R, ic) ==
  /\ op' = [op EXCEPT ![t] = Idle]
  /\ out' = [out EXCEPT ![t] =
        Done(o, IF R.ok THEN "returned" ELSE "threw", R.err, R.resp, ic)]

\* connect, lines 41-46: the return after the handshake, or the catch block
connectSettledKeeps(L, ic) ==
  [ isConnected |-> ic,
    R |-> IF L.ok THEN L ELSE Threw(Wrap("Verbindungsfehler: ", L.err)) ]

connectSettled(L, ic) ==
  [ isConnected |-> IF L.ok THEN ic ELSE FALSE,
    R |-> IF L.ok THEN L ELSE Threw(Wrap("Verbindungsfehler: ", L.err)) ]

\* b holds the chain's return values as they stand when the method goes on
Continue(t, o, L, ic, b, hsNow, cokNow) ==
  CASE o.name = "connect" ->
         /\ isConnected' = connectSettled(L, ic).isConnected
         /\ Finish(t, o, connectSettled(L, ic).R, connectSettled(L, ic).isConnected)
         /\ hsState' = (IF L.ok THEN "ok" ELSE "failed")
         /\ connectOk' = L.ok
         /\ run' = b.run
         /\ udsRet' = b.ret
    [] o.name = "performHandshake" ->
         /\ isConnected' = ic
         /\ Finish(t, o, L, ic)
         /\ hsState' = (IF L.ok THEN "ok" ELSE IF ic THEN "failed" ELSE hsNow)
         /\ connectOk' = cokNow
         /\ run' = b.run
         /\ udsRet' = b.ret
    [] o.name = "read" ->
         /\ isConnected' = ic
         /\ Finish(t, o, readField(o.key, L), ic)
         /\ udsRet' = [b.ret EXCEPT ![t] = L]
         /\ hsState' = hsNow /\ connectOk' = cokNow
         /\ run' = b.run
    [] o.name = "setDateTime" ->
         /\ isConnected' = ic
         /\ Finish(t, o, setDateTime(L), ic)
         /\ udsRet' = [b.ret EXCEPT ![t] = L]
         /\ hsState' = hsNow /\ connectOk' = cokNow
         /\ run' = b.run
    [] OTHER ->
         \* readAllInformation: store and go on with the next task
         /\ isConnected' = ic
         /\ op' = [op EXCEPT ![t] = o]
         /\ out' = b.out
         /\ udsRet' = [b.ret EXCEPT ![t] = L]
         /\ hsState' = hsNow /\ connectOk' = cokNow
         /\ run' = RunStore(b.run, L)

\* the return values of a call stay observable until the next call of any
\* chain starts
Kept == [out |-> out, ret |-> udsRet, run |-> run, con |-> consumed, lw |-> lastWrite]
Cleared(t) ==
  [out |-> [u \in Tasks |-> NoOut],
   ret |-> [u \in Tasks |-> NoRet],
   run |-> NoRun,
   con |-> [u \in Tasks |-> NoConsumed],
   lw  |-> NoWrite]

\* ------------------------------------------------------------------------
\* Starting a transaction: the synchronous head of performHandshake (52-62)
\* or sendUdsRequest (121-129) up to the await of the write
\* ------------------------------------------------------------------------
Begin(t, o, kind, frame, timeout, ic, hw, wr, hsNow, cokNow, b, c) ==
  LET S  == IF ~ic THEN [err |-> NOT_CONNECTED, called |-> FALSE]
                   ELSE sendData(ic, hw, wr, c)
      o1 == IF S.called THEN [o EXCEPT !.writes = @ + 1] ELSE o
      b1 == [b EXCEPT !.ret[t] = NoRet,
                      !.run.writes = IF S.called /\ o.name = "readAll"
                                       THEN [@ EXCEPT ![b.run.idx] = @ + 1] ELSE @]
  IN  /\ Wire(S, frame, c, t, hsNow, cokNow, b.lw)
      /\ consumed' = [b.con EXCEPT ![t] = NoConsumed]
      /\ IF S.err = NoMsg
           THEN /\ tx' = [tx EXCEPT ![t] =
                      [st |-> "wait", kind |-> kind, seq |-> FreshSeq, w |-> 0,
                       timeout |-> timeout, elapsed |-> 0, first |-> TRUE]]
                /\ op' = [op EXCEPT ![t] = o1]
                /\ isConnected' = ic
                /\ hsState' = hsNow /\ connectOk' = cokNow
                /\ run' = b1.run
                /\ out' = b1.out
                /\ udsRet' = b1.ret
           ELSE /\ tx' = [tx EXCEPT ![t] = NoTx]
                /\ Continue(t, o1,
                            IF ~ic THEN Threw(NOT_CONNECTED) ELSE OnError(kind, S.err),
                            ic, b1, hsNow, cokNow)

\* ------------------------------------------------------------------------
\* Waiting for the response: receiveData (102-116) over SimpleHidWrapper.read
\* (86-125).  One step is one tryRead; the first one runs inside the call of
\* read(), each later one after a setTimeout of at least 10 ms, here
\* PollStepMs of wall-clock time.
\* ------------------------------------------------------------------------
elapsedFrozen(x) == x.elapsed

\* SimpleHidWrapper.read, lines 114 and 120: Date.now() - startTime at the
\* tryRead after this one
elapsedAfter(x) == x.elapsed + PollStepMs

\* What readSync finds at one tryRead: an input report (the display's answer
\* to the oldest request it has not answered: the expected one, written as
\* NoFrame, or another frame), nothing, or an I/O error.  When the read gives
\* up, the display may still answer later (drop = FALSE) or never.
NoData == [k |-> "none", f |-> NoFrame, drop |-> FALSE]
ReadOutcomes ==
  { NoData, [NoData EXCEPT !.drop = TRUE], [NoData EXCEPT !.k = "error"] }
    \cup { [k |-> "answer", f |-> f, drop |-> FALSE] : f \in OddFrames \cup {NoFrame} }

Poll(t) ==
  /\ tx[t].st = "wait"
  /\ \E rc \in ReadOutcomes :
       LET x       == tx[t]
           noTool  == x.first /\ (~isConnected \/ hidWrapper = 0)
           w       == IF x.first THEN hidWrapper ELSE x.w
           noHid   == x.first /\ ~noTool /\ (~wrappers[w].isConnected \/ ~wrappers[w].hidDevice)
           nullDev == ~x.first /\ ~wrappers[w].hidDevice
           guarded == noTool \/ noHid \/ nullDev
           request == Head(pending)
           data    == IF rc.f = NoFrame THEN ExpectedReply(request.report) ELSE rc.f
           Settle(L) ==
             /\ tx' = [tx EXCEPT ![t] = NoTx]
             /\ Continue(t, op[t], L, isConnected, Kept, hsState, connectOk)
       IN  IF guarded
             THEN /\ rc = NoData
                  /\ Settle(OnError(x.kind,
                        IF noTool THEN NOT_CONNECTED
                        ELSE IF noHid THEN receiveDataCatch(HID_NOT_CONNECTED)
                        ELSE receiveDataCatch(Wrap("Lesefehler: ", NULL_DEREF))))
                  /\ consumed' = [consumed EXCEPT ![t].how = "guard"]
                  /\ UNCHANGED << pending, faults >>
             ELSE
               CASE rc.k = "error" ->
                      /\ faults < MaxFaults
                      /\ faults' = faults + 1
                      /\ Settle(OnError(x.kind, receiveDataCatch(Wrap("Lesefehler: ", DEV_IO))))
                      /\ consumed' = [consumed EXCEPT ![t].how = "error"]
                      /\ pending' = pending
                 [] rc.k = "answer" ->
                      /\ pending # << >>
                      /\ IF rc.f = NoFrame
                           THEN faults' = faults
                           ELSE /\ rc.f \in OddFor(request.report)
                                /\ faults < MaxFaults
                                /\ faults' = faults + 1
                      /\ pending' = Tail(pending)
                      /\ consumed' = [consumed EXCEPT ![t] =
                            [by |-> x.seq, re |-> request.seq, frame |-> data, how |-> "frame"]]
                      /\ Settle(OnData(x.kind, data))
                 [] OTHER ->
                      \* a display that has a request answers it by the first
                      \* tryRead unless it departs from the healthy behaviour
                      /\ IF x.first /\ pending # << >>
                           THEN faults < MaxFaults /\ faults' = faults + 1
                           ELSE faults' = faults
                      /\ IF x.elapsed > x.timeout
                           THEN /\ rc.drop => pending # << >>
                                /\ consumed' = [consumed EXCEPT ![t].how = "timeout"]
                                /\ pending' = IF rc.drop THEN << >> ELSE pending
                                /\ Settle(OnError(x.kind, receiveDataCatch(READ_TIMEOUT)))
                           ELSE /\ ~rc.drop
                                /\ consumed' = consumed
                                /\ pending' = pending
                                /\ tx' = [tx EXCEPT ![t] =
                                     [x EXCEPT !.elapsed = elapsedAfter(x),
                                               !.first = FALSE, !.w = w]]
                                /\ UNCHANGED << isConnected, op, out, run, udsRet,
                                                hsState, connectOk >>
  /\ UNCHANGED << device, hidWrapper, wrappers, osOpen, protocols, hid, calc, srv, opsLeft,
                  silent, lastWrite >>

\* ------------------------------------------------------------------------
\* Calls of the public methods
\* ------------------------------------------------------------------------
\* The callers.  "main" calls the public methods one after another; "aux" is a
\* second call chain that issues a field read while main is still inside
\* connect() or performHandshake().
AuxKeys == {"serialNumber"}
CallKeys == {"serialNumber", "componentType"}

CanCall(t) ==
  /\ op[t].name = "idle"
  /\ tx[t].st = "none"
  /\ opsLeft[t] > 0
  /\ IF t = "aux"
       THEN op["main"].name \in {"connect", "performHandshake"}
       ELSE op["aux"].name = "idle"

StartOp(name, key, mode) ==
  [name |-> name, key |-> key, mode |-> mode, writes |-> 0, issuedOk |-> connectOk,
   wasConnected |-> isConnected]

Spend(t) == opsLeft' = [opsLeft EXCEPT ![t] = @ - 1]


\* connect(device), lines 27-47, up to the await of the handshake response
connect(t, dev) ==
  /\ t = "main"
  /\ CanCall(t)
  /\ Spend(t)
  /\ LET o == StartOp("connect", "", "")
         n == Len(wrappers) + 1
     IN  IF ~isBoschDisplay(dev)
           THEN /\ Finish(t, o, Threw(<<"Das angegebene Geraet ist kein Bosch eBike Display!">>),
                          isConnected)
                /\ run' = NoRun
                /\ udsRet' = Cleared(t).ret
                /\ consumed' = Cleared(t).con
                /\ lastWrite' = Cleared(t).lw
                /\ UNCHANGED << toolVars, hid, calc, srv, pending, silent, faults, tx,
                                hsState, connectOk >>
           ELSE /\ device' = dev
                /\ hidWrapper' = n
                /\ protocols' = protocols /\ hid' = hid /\ calc' = calc /\ srv' = srv
                /\ \E opened \in BOOLEAN :
                     IF opened
                       THEN /\ wrappers' = Append(wrappers, [isConnected |-> TRUE, hidDevice |-> TRUE])
                            /\ osOpen' = osOpen \cup {n}
                            /\ \E c \in WriteOutcomes :
                                 Begin(t, o, "hs", createHandshakeFrame, 1000, TRUE, n,
                                       wrappers', "none", FALSE, Cleared(t), c)
                       ELSE /\ faults < MaxFaults
                            /\ faults' = faults + 1
                            /\ wrappers' = Append(wrappers, [isConnected |-> FALSE, hidDevice |-> FALSE])
                            /\ osOpen' = osOpen
                            /\ isConnected' = FALSE
                            /\ Finish(t, o, Threw(Wrap("Verbindungsfehler: ",
                                              Wrap("HID-Verbindungsfehler: ", DEV_OPEN))), FALSE)
                            /\ hsState' = "none"
                            /\ connectOk' = FALSE
                            /\ run' = NoRun
                            /\ udsRet' = Cleared(t).ret
                            /\ consumed' = Cleared(t).con
                            /\ lastWrite' = Cleared(t).lw
                            /\ UNCHANGED << pending, silent, tx >>

\* performHandshake(), lines 52-82, called on its own
performHandshake(t) ==
  /\ t = "main"
  /\ CanCall(t)
  /\ Spend(t)
  /\ \E c \in WriteOutcomes :
       Begin(t, StartOp("performHandshake", "", ""), "hs", createHandshakeFrame, 1000,
             isConnected, hidWrapper, wrappers, hsState, connectOk, Cleared(t), c)
  /\ UNCHANGED << device, hidWrapper, wrappers, osOpen, protocols, hid, calc, srv >>

\* one of the eight read* methods, lines 155-374
readFieldCall(t, key) ==
  /\ key \in (IF t = "aux" THEN AuxKeys ELSE CallKeys)
  /\ CanCall(t)
  /\ Spend(t)
  /\ \E c \in WriteOutcomes :
       Begin(t, StartOp("read", key, ""), "uds",
             createUdsFrame(READ_DATA_BY_IDENTIFIER, FieldId(key), << >>), 3000,
             isConnected, hidWrapper, wrappers, hsState, connectOk, Cleared(t), c)
  /\ UNCHANGED << device, hidWrapper, wrappers, osOpen, protocols, hid, calc, srv >>

\* setDateTime(date), lines 379-393
setDateTimeCall(t) ==
  /\ t = "main"
  /\ CanCall(t)
  /\ Spend(t)
  /\ \E c \in WriteOutcomes :
       Begin(t, StartOp("setDateTime", "", ""), "uds",
             createUdsFrame(WRITE_DATA_BY_IDENTIFIER, DATA_IDENTIFIERS.PRESENT_DATE_TIME,
                            DateTimePayload), 3000,
             isConnected, hidWrapper, wrappers, hsState, connectOk, Cleared(t), c)
  /\ UNCHANGED << device, hidWrapper, wrappers, osOpen, protocols, hid, calc, srv >>

\* readAllInformation(mode), lines 635-654: a fresh record
readAllInformation(t, mode) ==
  /\ t = "main"
  /\ CanCall(t)
  /\ Spend(t)
  /\ op' = [op EXCEPT ![t] = StartOp("readAll", "", mode)]
  /\ run' = [NoRun EXCEPT !.idx = 1, !.mode = mode]
  /\ out' = Cleared(t).out
  /\ udsRet' = Cleared(t).ret
  /\ consumed' = Cleared(t).con
  /\ lastWrite' = Cleared(t).lw
  /\ UNCHANGED << toolVars, hid, calc, srv, pending, silent, faults, tx,
                  hsState, connectOk >>

AwaitDoneNoAwait(t) == TRUE

\* the for-loop resumes only when the awaited read has settled
AwaitDone(t) == tx[t].st = "none"

RunFinished ==
  \/ run.idx = 9 /\ run.mode # "full"
  \/ run.idx \in {9, 13} /\ run.mode = "full" /\ ~isConnected
  \/ run.idx = 17

\* the next task of readAllInformation: lines 656-663 and 666-687
readAllNext(t) ==
  /\ op[t].name = "readAll"
  /\ AwaitDone(t)
  /\ ~RunFinished
  /\ \E c \in WriteOutcomes :
       Begin(t, op[t], "uds",
             createUdsFrame(READ_DATA_BY_IDENTIFIER, RunId(run.idx), << >>),
             RunTimeout(run.idx),
             isConnected, hidWrapper, wrappers, hsState, connectOk, Kept, c)
  /\ UNCHANGED << device, hidWrapper, wrappers, osOpen, protocols, hid, calc, srv, opsLeft >>

\* lines 670-675, 681-686, 688-703: the sub-records that were not read, the
\* time stamp, and the return
readAllReturn(t) ==
  /\ op[t].name = "readAll"
  /\ AwaitDone(t)
  /\ RunFinished
  /\ run' = [run EXCEPT
        !.driveUnit = IF run.idx > 9 THEN @
                      ELSE IF run.mode = "full" THEN SubFailed ELSE SubSkipped,
        !.batteryManagement = IF run.idx = 17 THEN @
                      ELSE IF run.mode = "full" THEN SubFailed ELSE SubSkipped,
        !.lastUpdate = TRUE]
  /\ op' = [op EXCEPT ![t] = Idle]
  /\ out' = [out EXCEPT ![t] = Done(op[t], "returned", NoMsg, NoFrame, isConnected)]
  /\ UNCHANGED << toolVars, hid, calc, srv, wireVars, tx, opsLeft, udsRet, ghostVars >>

disconnectSettledWhenClosed(ic, closed) ==
  [hidWrapper |-> 0, device |-> NullDevice, isConnected |-> IF closed THEN FALSE ELSE ic]

\* disconnect, lines 723-725: the fields as it leaves them, whether or not
\* hidDevice.close threw
disconnectSettled(ic, closed) ==
  [hidWrapper |-> 0, device |-> NullDevice, isConnected |-> FALSE]

\* disconnect(), lines 713-726, with SimpleHidWrapper.close, lines 30-40;
\* closed = FALSE: hidDevice.close throws and the handle stays open
disconnect(t) ==
  /\ t = "main"
  /\ CanCall(t)
  /\ Spend(t)
  /\ \E closed \in BOOLEAN :
       /\ IF hidWrapper # 0
            THEN /\ ~closed => wrappers[hidWrapper].hidDevice /\ faults < MaxFaults
                 /\ wrappers' = [wrappers EXCEPT ![hidWrapper] =
                                   [isConnected |-> FALSE, hidDevice |-> FALSE]]
                 /\ osOpen' = IF closed THEN osOpen \ {hidWrapper} ELSE osOpen
                 /\ faults' = IF closed THEN faults ELSE faults + 1
            ELSE /\ closed
                 /\ UNCHANGED << wrappers, osOpen, faults >>
       /\ hidWrapper' = disconnectSettled(isConnected, closed).hidWrapper
       /\ device' = disconnectSettled(isConnected, closed).device
       /\ isConnected' = disconnectSettled(isConnected, closed).isConnected
       /\ Finish(t, StartOp("disconnect", "", ""), Returned(NoFrame),
                 disconnectSettled(isConnected, closed).isConnected)
  /\ protocols' = protocols /\ hid' = hid /\ calc' = calc /\ srv' = srv
  /\ hsState' = "none"
  /\ connectOk' = FALSE
  /\ run' = NoRun
  /\ udsRet' = Cleared(t).ret
  /\ consumed' = Cleared(t).con
  /\ lastWrite' = Cleared(t).lw
  /\ UNCHANGED << pending, silent, tx >>

Modes == {"display", "full"}

Next ==
  \/ \E dev \in Devices : connect("main", dev)
  \/ performHandshake("main")
  \/ \E t \in Tasks : \E key \in KeySet : readFieldCall(t, key)
  \/ setDateTimeCall("main")
  \/ \E mode \in Modes : readAllInformation("main", mode)
  \/ \E t \in Tasks : readAllNext(t)
  \/ \E t \in Tasks : readAllReturn(t)
  \/ disconnect("main")
  \/ \E t \in Tasks : Poll(t)
  \/ DeviceGoSilent

Spec == Init /\ [][Next]_vars

\* The single calls without readAllInformation, whose waits are those of the
\* sendUdsRequest calls it makes one after another.
CallsNext ==
  \/ \E dev \in Devices : connect("main", dev)
  \/ performHandshake("main")
  \/ \E t \in Tasks : readFieldCall(t, "serialNumber")
  \/ setDateTimeCall("main")
  \/ disconnect("main")
  \/ \E t \in Tasks : Poll(t)
  \/ DeviceGoSilent

\* every poll is followed by the next one: setTimeout(tryRead, 10) is always
\* run by the event loop, and readSync hands control back
FairSpec == Init /\ [][CallsNext]_vars /\ \A t \in Tasks : WF_vars(Poll(t))

\* ------------------------------------------------------------------------
\* Properties
\* ------------------------------------------------------------------------
IsUdsRequest(report) ==
  /\ Len(report) >= 5
  /\ SubSeq(report, 2, 5) = <<1, 0, 58, 8>>

IsNotConnectedError(m) ==
  /\ Len(m) > 0
  /\ m[Len(m)] = "Nicht mit dem Display verbunden!"

\* C1: a UDS request frame (header 01 00 3A 08) is written to the transport
\* only if a handshake has completed successfully on the current connection
\* and no handshake has failed since.
C1_RequestOnlyAfterHandshake ==
  IsUdsRequest(lastWrite.report) => lastWrite.hs = "ok"

\* C2: a field read issued while connect() has not succeeded (never called,
\* in progress, failed) fails with 'not connected' and writes nothing.
C2_ReadBeforeConnectFails ==
  \A t \in Tasks :
    /\ (op[t].name = "read" /\ ~op[t].issuedOk) => op[t].writes = 0
    /\ (out[t].name = "read" /\ ~out[t].issuedOk) =>
         /\ out[t].status = "threw"
         /\ IsNotConnectedError(out[t].err)
         /\ out[t].writes = 0

\* C3: every response sendUdsRequest() returns has at least 7 bytes, byte 0 =
\* 0x01, byte 1 = 0x00, byte 5 = 0x62 and byte 3 > 0.
C3_ReturnedResponseIsPositive ==
  \A t \in Tasks :
    udsRet[t].ok =>
      LET r == udsRet[t].resp
      IN  /\ Len(r) >= 7
          /\ r[1] = 1
          /\ r[2] = 0
          /\ r[6] = 98
          /\ r[4] > 0

\* with the module of src/backend/lib the statement of C3 holds
ReturnedPositiveWithBackendModule ==
  protocols = "backend/lib/protocols.js" => C3_ReturnedResponseIsPositive

\* C4: setDateTime returns true whenever the display answers its request
\* with the well-formed positive write acknowledgement (code 0x6E).
C4_SetDateTimeAcknowledged ==
  \A t \in Tasks :
    ( /\ out[t].name = "setDateTime"
      /\ consumed[t].frame = <<1, 0, 61, 3, 46, 110, 2, 58, 0>> )
    => out[t].status = "returned"

\* no response at all makes setDateTime return
SetDateTimeNeverReturns ==
  \A t \in Tasks : ~(out[t].name = "setDateTime" /\ out[t].status = "returned")

\* C5: readAllInformation(mode) always returns; each of the eight primary
\* keys holds a value or an error marker, driveUnit and batteryManagement
\* are present, lastUpdate is set; when every transaction of the run timed
\* out, every primary key holds an error marker.
C5_ReadAllAlwaysReturns ==
  \A t \in Tasks :
    out[t].name = "readAll" =>
      /\ out[t].status = "returned"
      /\ \A i \in 1..8 : run.results[PrimaryKeys[i]] \in {"value", "Fehler"}
      /\ run.driveUnit.status \in
           {"Verfuegbar", "Nicht angeschlossen", "Fehler", "Nicht abgefragt"}
      /\ run.batteryManagement.status \in
           {"Verfuegbar", "Nicht angeschlossen", "Fehler", "Nicht abgefragt"}
      /\ run.lastUpdate
      /\ (run.onlyTimeouts /\ out[t].writes >= 8) =>
           \A i \in 1..8 : run.results[PrimaryKeys[i]] = "Fehler"

C5_AllTimedOut ==
  /\ out["main"].name = "readAll"
  /\ out["main"].status = "returned"
  /\ run.onlyTimeouts
  /\ out["main"].writes >= 8
  /\ run.lastUpdate

\* C6: with requests issued strictly one after another, every response a
\* transaction consumes is the reply to the request this transaction sent.
C6_ConsumedReplyIsOwn ==
  opsLeft["aux"] = MaxAuxOps => consumed["main"].re = consumed["main"].by

\* the transactions written and not settled
inFlight == {t \in Tasks : tx[t].st = "wait"}

\* C7 (as stated): during a readAllInformation() run at most one transaction
\* is in flight and each field causes exactly one request write.
C7_ExactlyOneWritePerField ==
  \A t \in Tasks :
    (op[t].name = "readAll" \/ out[t].name = "readAll") =>
      /\ Cardinality(inFlight) <= 1
      /\ \A i \in 1..16 : i < run.idx => run.writes[i] = 1

\* C7 (amended): during a readAllInformation() run at most one transaction is
\* in flight; each field causes at most one request write, exactly one when
\* the tool is connected and none when it is not.
C7_OneInFlightNoRetry ==
  \A t \in Tasks :
    (op[t].name = "readAll" \/ out[t].name = "readAll") =>
      /\ Cardinality(inFlight) <= 1
      /\ \A i \in 1..16 : run.writes[i] <= 1
      /\ \A i \in 1..16 : i < run.idx =>
           run.writes[i] = IF isConnected THEN 1 ELSE 0

C7_FailedFieldWrittenOnce ==
  /\ out["main"].name = "readAll"
  /\ isConnected
  /\ run.idx = 17
  /\ \E i \in 1..8 : run.results[PrimaryKeys[i]] = "Fehler"
  /\ \A i \in 1..16 : run.writes[i] = 1

C10_ReturnsConnectedOrThrowsDisconnected ==
  \A t \in Tasks :
    out[t].name = "connect" =>
      \/ out[t].status = "returned" /\ out[t].isConnected
      \/ out[t].status = "threw" /\ ~out[t].isConnected

\* C10 (amended): connect(device) returns with isConnected = true after the
\* transport opened and the handshake succeeded; or it throws for a device
\* that is not a Bosch display and leaves isConnected as it was; or it throws
\* 'Verbindungsfehler: ' followed by the underlying message with isConnected
\* = false.
C10_ConnectOutcome ==
  \A t \in Tasks :
    out[t].name = "connect" =>
      \/ /\ out[t].status = "returned"
         /\ out[t].isConnected
         /\ hsState = "ok"
         /\ hidWrapper # 0
         /\ wrappers[hidWrapper].hidDevice
      \/ /\ out[t].status = "threw"
         /\ out[t].err = <<"Das angegebene Geraet ist kein Bosch eBike Display!">>
         /\ out[t].isConnected = out[t].wasConnected
      \/ /\ out[t].status = "threw"
         /\ Len(out[t].err) >= 2
         /\ out[t].err[1] = "Verbindungsfehler: "
         /\ ~out[t].isConnected

C10_RejectedWhileConnected ==
  /\ out["main"].name = "connect"
  /\ out["main"].wasConnected
  /\ out["main"].status = "threw"
  /\ out["main"].err = <<"Das angegebene Geraet ist kein Bosch eBike Display!">>
  /\ isConnected

\* the calls that go through sendUdsRequest
LastWasUds(t) ==
  \/ op[t].name \in {"read", "setDateTime", "readAll"}
  \/ out[t].name \in {"read", "setDateTime", "readAll"}

\* the slot that transaction i (9..16) of a full run fills
SubField(i) ==
  IF i <= 12 THEN run.driveUnit.fields[SubKeys[i - 8]]
             ELSE run.batteryManagement.fields[SubKeys[i - 12]]

\* C11: sendUdsRequest fails with 'TIMEOUT' exactly when its read timed out;
\* a sub-record field holds 'Nicht angeschlossen (Timeout)' exactly when its
\* transaction timed out and 'Fehler: ...' for every other failure, and the
\* remaining fields of the sub-record are still read.
C11_TimeoutMeansReadTimeout ==
  /\ \A t \in Tasks :
       LastWasUds(t) =>
         ( (~udsRet[t].ok /\ udsRet[t].err = <<"TIMEOUT">>)
           <=> consumed[t].how = "timeout" )
  /\ \A t \in Tasks :
       ( /\ (op[t].name = "readAll" /\ tx[t].st = "none") \/ out[t].name = "readAll"
         /\ run.idx \in 10..17 )
       => /\ SubField(run.idx - 1) = "Nicht angeschlossen (Timeout)"
               <=> consumed[t].how = "timeout"
          /\ SubField(run.idx - 1) = "Fehler"
               <=> (consumed[t].how # "timeout" /\ ~udsRet[t].ok)
          /\ SubField(run.idx - 1) = "value" <=> udsRet[t].ok
  /\ run.idx >= 13 =>
       \A k \in 1..4 : /\ run.driveUnit.fields[SubKeys[k]] # Unset
                       /\ run.writes[8 + k] = 1
  /\ run.idx = 17 =>
       \A k \in 1..4 : /\ run.batteryManagement.fields[SubKeys[k]] # Unset
                       /\ run.writes[12 + k] = 1

C11_TimeoutThenNextFieldRead ==
  /\ out["main"].name = "readAll"
  /\ run.idx = 17
  /\ \E j, k \in 1..4 :
       /\ j < k
       /\ run.driveUnit.fields[SubKeys[j]] = "Nicht angeschlossen (Timeout)"
       /\ run.driveUnit.fields[SubKeys[k]] = "value"

\* a well-formed response that is negative (code 0x7F) or positive with
\* dataLength 0
IsNegativeOrEmpty(f) ==
  /\ Len(f) >= 6
  /\ f[1] = 1
  /\ f[2] = 0
  /\ f[6] = 127 \/ (f[6] = 98 /\ f[4] = 0)

\* C12: a well-formed response with response code 0x7F, or with code 0x62 and
\* dataLength 0, makes sendUdsRequest fail with an error other than 'TIMEOUT',
\* return no response and write nothing further.
C12_NegativeResponseFails ==
  \A t \in Tasks :
    ( /\ LastWasUds(t)
      /\ consumed[t].how = "frame"
      /\ IsNegativeOrEmpty(consumed[t].frame) )
    => /\ ~udsRet[t].ok
       /\ udsRet[t].resp = NoFrame
       /\ udsRet[t].err # <<"TIMEOUT">>
       /\ out[t].name \in {"read", "setDateTime"} => out[t].writes = 1

\* with the module of src/backend/lib the statement of C12 holds
NegativeFailsWithBackendModule ==
  protocols = "backend/lib/protocols.js" => C12_NegativeResponseFails


\* ------------------------------------------------------------------------
\* The browser front end (WebHID): readDisplayInformationHID, lines 397-448,
\* over readUdsDataHID, lines 505-594.  hid.idx numbers the reads of a scan:
\* 1..4 the display's fields, 5..8 the drive unit, 9..13 the battery
\* management.  hid.how notes how each read ended.
\* ------------------------------------------------------------------------
\* lines 405-441: four reads in mode 'display', thirteen in mode 'full'
HidReads(mode) == IF mode = "full" THEN HidFieldCount ELSE 4

\* readUdsDataHID, lines 586-593: the catch block's return value
readUdsDataHIDCatch(m) ==
  IF includes(m, "timeout") \/ includes(m, "Timeout") THEN "TIMEOUT" ELSE "N/A"

\* handleInputReport, lines 536-575: how it settles the promise of line 530
handleInputReport(response) ==
  IF Len(response) < 6
    THEN Threw(<<"Ungueltige Response-Laenge">>)
    ELSE IF At(response, 0) # 1 \/ At(response, 1) # 0
      THEN Threw(<<"Ungueltiger Response-Header">>)
      ELSE IF At(response, 5) = 98
        THEN Returned(slice(response, 8, Len(response)))
        ELSE Threw(<<"UDS-Fehler: Service">>)

\* line 561 calls toString on bytes 6 and 7 of the response: on a frame of
\* six or seven bytes the listener throws there, nothing is settled, and
\* timer and listener stay
handlerThrows(response) ==
  /\ Len(response) \in {6, 7}
  /\ At(response, 0) = 1 /\ At(response, 1) = 0

\* The promise of line 530 is returned, not awaited: the async function
\* settles as that promise does, and a rejection of it does not pass through
\* the catch block of lines 586-593.  P is the outcome of the promise.
readUdsDataHIDSettled(P) ==
  IF P.ok THEN [ok |-> TRUE, value |-> "value", err |-> NoMsg]
          ELSE [ok |-> FALSE, value |-> "unset", err |-> P.err]

\* readDisplayInformationHID after one awaited read: the value goes into the
\* record and the next read starts, or the record is returned (line 443), or
\* the catch block of lines 445-447 throws
HidAfterRead(h, v, how) ==
  LET h1 == [h EXCEPT !.how[h.idx] = how]
  IN  IF ~v.ok
        THEN [h1 EXCEPT !.pc = "done", !.status = "threw",
                        !.err = Wrap("WebHID Display-Info-Lesefehler: ", v.err)]
        ELSE IF h.idx = HidReads(h.mode)
          THEN [h1 EXCEPT !.fields[h.idx] = v.value, !.pc = "done",
                          !.status = "returned"]
          ELSE [h1 EXCEPT !.fields[h.idx] = v.value, !.idx = h.idx + 1,
                          !.pc = "send", !.sent = h.sent + 1]

boschVars == << toolVars, wireVars, chainVars, ghostVars >>

\* readDisplayInformationHID(device, mode), lines 397-405, and the head of the
\* first readUdsDataHID up to the await of sendReport (line 527)
readDisplayInformationHID(mode) ==
  /\ hid.pc = "idle"
  /\ hid' = [NoHid EXCEPT !.pc = "send", !.mode = mode, !.idx = 1, !.sent = 1,
                          !.listeners = hid.listeners]
  /\ UNCHANGED << boschVars, calc, srv >>

\* device.sendReport has settled: the promise of line 530 is made and the
\* listener registered, or the catch block returns its marker
HidSendReportSettled ==
  /\ hid.pc = "send"
  /\ \E sentOk \in BOOLEAN :
       hid' = IF sentOk
                THEN [hid EXCEPT !.pc = "wait", !.listeners = @ + 1]
                ELSE HidAfterRead(hid, [ok |-> TRUE,
                                        value |-> readUdsDataHIDCatch(<<"Failed to write the report.">>),
                                        err |-> NoMsg], "send")
  /\ UNCHANGED << boschVars, calc, srv >>

\* an 'inputreport' event while a read waits, lines 535-576: the display's
\* answer to the request or one of the other frames it may send; every branch
\* that settles the promise removes the listener first
HidInputReport ==
  /\ hid.pc = "wait"
  /\ \E reportId \in {0, 1} : \E response \in {PositiveFor(DATA_IDENTIFIERS.SERIAL_NUMBER)} \cup OddUdsFrames :
       hid' = IF reportId # 0 \/ handlerThrows(response)
                THEN hid
                ELSE HidAfterRead([hid EXCEPT !.listeners = @ - 1],
                                  readUdsDataHIDSettled(handleInputReport(response)),
                                  IF handleInputReport(response).ok THEN "value" ELSE "frame")
  /\ UNCHANGED << boschVars, calc, srv >>

\* the timer of lines 531-533 fires: reject, and nothing else
HidTimeout ==
  /\ hid.pc = "wait"
  /\ hid' = HidAfterRead(hid, readUdsDataHIDSettled(Threw(<<"UDS Timeout">>)), "timeout")
  /\ UNCHANGED << boschVars, calc, srv >>

HidNext ==
  \/ \E mode \in Modes : readDisplayInformationHID(mode)
  \/ HidSendReportSettled
  \/ HidInputReport
  \/ HidTimeout

HidSpec == Init /\ [][HidNext]_vars

\* C13: a scan of the browser front end never ends with an error; a read that
\* timed out or failed leaves the marker 'TIMEOUT' or 'N/A' in its field, the
\* reads after it are still sent, and the returned record has every field of
\* the mode.
C13_HidScanAlwaysCompletes ==
  /\ hid.status # "threw"
  /\ \A i \in 1..HidFieldCount :
       /\ hid.how[i] \in {"timeout", "frame", "send"} =>
            /\ hid.fields[i] \in {"TIMEOUT", "N/A"}
            /\ i < HidReads(hid.mode) => hid.sent > i
       /\ hid.how[i] = "value" => hid.fields[i] = "value"
  /\ hid.status = "returned" =>
       /\ hid.sent = HidReads(hid.mode)
       /\ \A i \in 1..HidReads(hid.mode) : hid.fields[i] # "unset"


\* ------------------------------------------------------------------------
\* readRealDisplayData, lines 262-291: performHandshakeHID (294-346), then the
\* scan.  While the handshake runs hid.pc is "hsSend" or "hsWait" and
\* hid.how[1] notes an inbound report that the listener let pass.
\* ------------------------------------------------------------------------
\* the reports a display may send while the handshake waits
HsReports ==
  { HID_FRAME_HEADERS.HANDSHAKE_RESPONSE \o Zeros(4),
    <<0, 1, 1, 1>> \o Zeros(4),
    <<0, 1, 1>>,
    PositiveFor(DATA_IDENTIFIERS.SERIAL_NUMBER) }

\* handleInputReport of the handshake, lines 332-337: the four-byte check
hsMatches(response) ==
  \A i \in 0..3 : i < Len(response) /\ At(response, i) = HID_FRAME_HEADERS.HANDSHAKE_RESPONSE[i + 1]

\* performHandshakeHID(device), lines 294-311, up to the await of sendReport
performHandshakeHID ==
  /\ hid.pc = "idle" /\ hid.status = "none"
  /\ hid' = [hid EXCEPT !.pc = "hsSend"]
  /\ UNCHANGED << boschVars, calc, srv >>

\* sendReport has settled (line 311): the promise of line 315 is made, timer
\* and listener with it, or the catch block of lines 343-345 throws
HsSendReportSettled ==
  /\ hid.pc = "hsSend"
  /\ \E sentOk \in BOOLEAN :
       hid' = IF sentOk
                THEN [hid EXCEPT !.pc = "hsWait", !.listeners = @ + 1]
                ELSE [hid EXCEPT !.pc = "done", !.status = "threw",
                                 !.err = Wrap("WebHID Handshake-Fehler: ", <<"Failed to write the report.">>)]
  /\ UNCHANGED << boschVars, calc, srv >>

\* an 'inputreport' event while the handshake waits, lines 320-337: resolve
\* on the expected four bytes, no branch for anything else
HsInputReport ==
  /\ hid.pc = "hsWait"
  /\ \E reportId \in {0, 1} : \E response \in HsReports :
       hid' = IF reportId = 0 /\ hsMatches(response)
                THEN [hid EXCEPT !.pc = "idle", !.status = "handshake", !.listeners = @ - 1]
                ELSE [hid EXCEPT !.how[1] = "passed"]
  /\ UNCHANGED << boschVars, calc, srv >>

\* the timer of lines 316-318 fires: reject, and nothing else; the promise
\* was returned, not awaited
HsTimeout ==
  /\ hid.pc = "hsWait"
  /\ hid' = [hid EXCEPT !.pc = "done", !.status = "threw", !.err = <<"Handshake Timeout">>]
  /\ UNCHANGED << boschVars, calc, srv >>

\* line 281: the scan after the handshake has resolved
ScanAfterHandshake(mode) ==
  /\ hid.status = "handshake"
  /\ readDisplayInformationHID(mode)

WebHidNext ==
  \/ performHandshakeHID
  \/ HsSendReportSettled
  \/ HsInputReport
  \/ HsTimeout
  \/ \E mode \in Modes : ScanAfterHandshake(mode)
  \/ HidSendReportSettled
  \/ HidInputReport
  \/ HidTimeout

WebHidSpec == Init /\ [][WebHidNext]_vars

\* C26: once a report has arrived in the browser handshake whose first four
\* bytes are not 00 01 01 00, the handshake has failed, and with an error
\* other than the timeout; the timeout is left to the case of no report.
C26_MismatchRejects ==
  hid.how[1] = "passed" =>
    /\ hid.pc = "done" /\ hid.status = "threw"
    /\ hid.err # <<"Handshake Timeout">>

\* the error of the handshake is the timeout or the wrapped failure of
\* sendReport, whatever arrived
HsFailsOnlyBySendOrTimeout ==
  (hid.status = "threw" /\ hid.idx = 0) =>
    hid.err \in { <<"Handshake Timeout">>,
                  Wrap("WebHID Handshake-Fehler: ", <<"Failed to write the report.">>) }


\* ------------------------------------------------------------------------
\* Calls of the functions of ProtocolHelper (src/backend/lib/protocols.js) and
\* of the report construction of SimpleHidWrapper.write on their own.  calc
\* holds the arguments from the start; the call's action stores the result.
\* ------------------------------------------------------------------------
MaxData == 60
MaxResponse == 7
MaxHexData == 3

\* byte arrays of every length up to max: 1, 2, 3, ... or 0xFF throughout
Payloads(max) ==
  {[i \in 1..n |-> i] : n \in 0..max} \cup {[i \in 1..n |-> 255] : n \in 0..max}

\* service bytes and identifier bytes of the frames handed to
\* identifyDataIdentifier
\* the first bytes of the serial number request of testPcapData
CapturedRequest == <<1, 0, 58, 8, 3, 34, 2, 66, 0>>
ServiceIds == {0, 16, 33, 34, 35, 46, 98, 127, 255}
IdBytes == {0, 2, 34, 66, 114, 255}

\* the arguments of the calls
CalcInputs ==
  { [NoCalc EXCEPT !.fn = "createUdsFrame", !.svc = s, !.did = d, !.data = x] :
      s \in {READ_DATA_BY_IDENTIFIER, WRITE_DATA_BY_IDENTIFIER},
      d \in {DATA_IDENTIFIERS.SERIAL_NUMBER, DATA_IDENTIFIERS.DU_SERIAL_NUMBER},
      x \in Payloads(MaxData) }
  \cup
  { [NoCalc EXCEPT !.fn = "write", !.data = x, !.dev = c] :
      x \in Payloads(MaxData + 8), c \in {"ok", "short", "throw"} }
  \cup
  { [NoCalc EXCEPT !.fn = "parseUdsResponse", !.data = x] :
      x \in UNION {[1..n -> {0, 1, 98}] : n \in 0..MaxResponse} }
  \cup
  { [NoCalc EXCEPT !.fn = "hexToTime", !.data = x] :
      x \in UNION {[1..n -> {0, 9, 14, 30, 59, 60, 255}] : n \in 0..MaxHexData} }
  \cup
  { [NoCalc EXCEPT !.fn = "hexToVersion", !.data = x, !.isBuffer = b] :
      x \in UNION {[1..n -> {1, 2, 3, 4}] : n \in 0..(MaxHexData + 1)}
             \cup UNION {[1..n -> {2, 32, 114, 255}] : n \in 0..2}
             \cup Payloads(MaxHexData + 2),
      b \in BOOLEAN }
  \cup
  { [NoCalc EXCEPT !.fn = "hexToArticleNumber", !.data = x] :
      x \in UNION {[1..n -> {0, 37, 50, 53, 178}] : n \in 0..(MaxHexData + 1)}
             \cup {<<50, 51, 52, 53>>} }
  \cup
  { [NoCalc EXCEPT !.fn = "hexToDate", !.data = x] :
      x \in UNION {[1..n -> {1, 6, 15, 24, 99}] : n \in 0..(MaxHexData + 1)} }
  \cup
  { [NoCalc EXCEPT !.fn = "hexToSerialNumber", !.data = x, !.isBuffer = b] :
      x \in Payloads(MaxData)
             \cup UNION {[1..n -> {0, 5, 55, 255}] : n \in 0..MaxHexData}
             \cup {SerialPayload, SerialPayload \o <<170>>, <<115>> \o SerialPayload,
                   <<3, 127, 253, 112, 85, 100, 227, 19, 4, 100, 66, 0, 1>>},
      b \in BOOLEAN }
  \cup
  { [NoCalc EXCEPT !.fn = "readSubInfo", !.data = x] : x \in [1..4 -> 0..3] }
  \cup
  { [NoCalc EXCEPT !.fn = "identifyDataIdentifier", !.dev = "request", !.svc = v,
                   !.did = d] :
      v \in ServiceIds, d \in [1..2 -> IdBytes] }
  \cup
  { [NoCalc EXCEPT !.fn = "identifyDataIdentifier", !.dev = "handshake"] }
  \cup
  { [NoCalc EXCEPT !.fn = "identifyDataIdentifier", !.dev = "frame", !.data = x] :
      x \in {SubSeq(CapturedRequest, 1, n) : n \in 0..9} }
  \cup
  { [NoCalc EXCEPT !.fn = "onResponse", !.data = x] :
      x \in OddUdsFrames \cup {PositiveFor(DATA_IDENTIFIERS.SERIAL_NUMBER)}
             \cup UNION {[1..n -> {0, 1, 98}] : n \in 0..MaxResponse} }

\* createUdsFrame(serviceId, dataIdentifier, data), lines 145-160
createUdsFrameCall ==
  /\ calc.fn = "createUdsFrame"
  /\ ~calc.done
  /\ calc' = [calc EXCEPT !.done = TRUE,
                          !.ret = createUdsFrame(calc.svc, calc.did, calc.data)]
  /\ UNCHANGED << boschVars, hid, srv >>

\* SimpleHidWrapper.write(data), lines 45-81, on an open wrapper: ret is the
\* array handed to hidDevice.write, calc.dev what the device does with it
writeCall ==
  /\ calc.fn = "write"
  /\ ~calc.done
  /\ calc' = [calc EXCEPT !.done = TRUE,
                          !.ret = reportArray(calc.data),
                          !.threw = (calc.dev # "ok")]
  /\ UNCHANGED << boschVars, hid, srv >>

\* parseUdsResponse(response), lines 178-208
parseUdsResponseCall ==
  /\ calc.fn = "parseUdsResponse"
  /\ ~calc.done
  /\ calc' = [calc EXCEPT !.done = TRUE,
                          !.threw = parseThrows(calc.data),
                          !.ret = IF parseThrows(calc.data)
                                    THEN parseError(calc.data)
                                    ELSE parseUdsResponse(calc.data)]
  /\ UNCHANGED << boschVars, hid, srv >>

\* hexToTime(hexData), lines 316-340
hexToTimeCall ==
  /\ calc.fn = "hexToTime"
  /\ ~calc.done
  /\ calc' = [calc EXCEPT !.done = TRUE, !.ret = hexToTime(calc.data)]
  /\ UNCHANGED << boschVars, hid, srv >>

\* hexToVersion(hexData), lines 260-292
hexToVersionCall ==
  /\ calc.fn = "hexToVersion"
  /\ ~calc.done
  /\ calc' = [calc EXCEPT !.done = TRUE, !.ret = hexToVersion(calc.data, calc.isBuffer)]
  /\ UNCHANGED << boschVars, hid, srv >>

\* hexToSerialNumber(hexData), lines 227-255
hexToSerialNumberCall ==
  /\ calc.fn = "hexToSerialNumber"
  /\ ~calc.done
  /\ calc' = [calc EXCEPT !.done = TRUE,
                          !.ret = hexToSerialNumber(calc.data, calc.isBuffer)]
  /\ UNCHANGED << boschVars, hid, srv >>

\* hexToArticleNumber(hexData), lines 297-311
hexToArticleNumberCall ==
  /\ calc.fn = "hexToArticleNumber"
  /\ ~calc.done
  /\ calc' = [calc EXCEPT !.done = TRUE, !.ret = hexToArticleNumber(calc.data)]
  /\ UNCHANGED << boschVars, hid, srv >>

\* hexToDate(hexData) of the module named by protocols
hexToDateCall ==
  /\ calc.fn = "hexToDate"
  /\ ~calc.done
  /\ calc' = [calc EXCEPT !.done = TRUE,
                          !.ret = IF protocols = "unnamed/part_001"
                                    THEN hexToDateLib(calc.data)
                                    ELSE hexToDate(calc.data)]
  /\ UNCHANGED << boschVars, hid, srv >>

\* one inbound frame given to both front ends: to sendUdsRequest, lines
\* 135-142, and to the listener of readUdsDataHID, lines 535-576
onResponseCall ==
  /\ calc.fn = "onResponse"
  /\ ~calc.done
  /\ calc' = [calc EXCEPT !.done = TRUE,
                          !.ret = [ local   |-> sendUdsRequestOnData(calc.data).ok,
                                    browser |-> IF handlerThrows(calc.data) THEN "unsettled"
                                                ELSE IF handleInputReport(calc.data).ok
                                                  THEN "resolved"
                                                  ELSE "rejected" ]]
  /\ UNCHANGED << boschVars, hid, srv >>

\* how one sendUdsRequest of a sub-record read ended: with a response, with
\* 'TIMEOUT', with a negative response, or with the tool disconnected
SubOutcome(code) ==
  CASE code = 0 -> Returned(PositiveFor(DATA_IDENTIFIERS.DU_PART_NUMBER))
    [] code = 1 -> Threw(TIMEOUT)
    [] code = 2 -> Threw(sendUdsRequestCatch(<<"UDS-Response-Fehler: Service">>))
    [] OTHER    -> Threw(NOT_CONNECTED)

\* readDriveUnitInfo (409-517) or readBatteryManagementInfo (522-630) on a
\* connected tool, given how its four requests end
readSubInfoCall ==
  /\ calc.fn = "readSubInfo"
  /\ ~calc.done
  /\ calc' = [calc EXCEPT !.done = TRUE,
                !.ret = SubStore(SubStore(SubStore(SubStore(NoSub,
                            1, SubOutcome(calc.data[1])),
                            2, SubOutcome(calc.data[2])),
                            3, SubOutcome(calc.data[3])),
                            4, SubOutcome(calc.data[4]))]
  /\ UNCHANGED << boschVars, hid, srv >>

\* the functions of src/backend/lib/protocols.js; hexToDate and the check of
\* a response with both copies of the module
\* identifyDataIdentifier(hidData), lines 395-405, on the frame that
\* createUdsFrame(svc, did) or createHandshakeFrame built, or on a given frame
\* (testPcapData, lines 415-442, hands it parsed captures of such frames)
identifyDataIdentifierCall ==
  /\ calc.fn = "identifyDataIdentifier"
  /\ ~calc.done
  /\ LET hidData == CASE calc.dev = "request" -> createUdsFrame(calc.svc, calc.did, << >>)
                      [] calc.dev = "handshake" -> createHandshakeFrame
                      [] OTHER -> calc.data
     IN  calc' = [calc EXCEPT !.done = TRUE,
                              !.ret = [ frame |-> hidData,
                                        dataId |-> identifyDataIdentifier(hidData) ]]
  /\ UNCHANGED << boschVars, hid, srv >>

CalcInit ==
  /\ InitTool
  /\ calc \in CalcInputs
  /\ protocols = "unnamed/part_001" => calc.fn \in {"hexToDate", "onResponse"}

CalcNext ==
  \/ createUdsFrameCall
  \/ writeCall
  \/ parseUdsResponseCall
  \/ hexToTimeCall
  \/ hexToVersionCall
  \/ hexToSerialNumberCall
  \/ hexToArticleNumberCall
  \/ hexToDateCall
  \/ onResponseCall
  \/ readSubInfoCall
  \/ identifyDataIdentifierCall

CalcSpec == CalcInit /\ [][CalcNext]_vars

UdsFrameOf(c) ==
  <<1, 0, 58, 8, 3, c.svc>> \o c.did \o c.data \o Zeros(64 - 8 - Len(c.data))

C15_ReportIs65Bytes ==
  (calc.fn = "write" /\ calc.done) =>
     /\ Len(calc.ret) = 65
     /\ calc.ret[1] = 0
     /\ \A i \in 1..64 :
          calc.ret[i + 1] = IF i <= Len(calc.data) THEN calc.data[i] ELSE 0
     /\ calc.threw <=> calc.dev # "ok"

C15_LongFrameCutSilently ==
  /\ calc.fn = "write"
  /\ calc.done
  /\ Len(calc.data) > 65
  /\ calc.data[65] # 0
  /\ ~calc.threw


C17_DisconnectDisconnects ==
  /\ out["main"].name = "disconnect" =>
       /\ out["main"].status = "returned"
       /\ ~isConnected
       /\ ~out["main"].isConnected
       /\ hidWrapper = 0
       /\ device = NullDevice
  /\ \A t \in Tasks :
       (out[t].name \in {"read", "setDateTime"} /\ ~out[t].wasConnected) =>
          /\ out[t].status = "threw"
          /\ out[t].writes = 0
          /\ udsRet[t] = Threw(NOT_CONNECTED)
          /\ lastWrite = NoWrite

C17_DisconnectedThoughCloseThrew ==
  /\ out["main"].name = "disconnect"
  /\ out["main"].wasConnected
  /\ osOpen # {}
  /\ ~isConnected


\* C18: readAllInformation runs the eight primary reads in the order serial
\* number, hardware version, software version, product code, article number,
\* component type, current time, current date, each request written once and
\* none before its predecessors have settled; in mode 'display' no request
\* with an identifier 0xF1xx is written and both sub-records are 'Nicht
\* abgefragt'; only in mode 'full', and only after the primary reads, are the
\* four drive-unit requests and then the four battery-management requests
\* written.
C18_ReadAllOrder ==
  LET o == IF op["main"].name = "readAll" THEN op["main"] ELSE out["main"]
      claimed == << "serialNumber", "hardwareVersion", "softwareVersion", "productCode",
                    "articleNumber", "componentType", "currentTime", "currentDate" >>
      usable == /\ isConnected
                /\ hidWrapper # 0
                /\ wrappers[hidWrapper].isConnected
                /\ wrappers[hidWrapper].hidDevice
  IN  o.name = "readAll" =>
        /\ \A i \in 1..16 :
             /\ run.writes[i] <= 1
             /\ i > run.idx => run.writes[i] = 0
             /\ (i < run.idx /\ usable) => run.writes[i] = 1
        /\ tx["main"].st = "wait" =>
             /\ lastWrite.task = "main"
             /\ run.writes[run.idx] = 1
             /\ IF run.idx <= 8
                  THEN slice(lastWrite.report, 7, 9) = FieldId(claimed[run.idx])
                  ELSE lastWrite.report[8] = 241
        /\ lastWrite # NoWrite =>
             (lastWrite.report[8] = 241 <=> run.idx > 8 /\ run.writes[9] = 1)
        /\ run.idx > 9 => run.mode = "full"
        /\ run.mode = "display" =>
             /\ \A i \in 9..16 : run.writes[i] = 0
             /\ out["main"].name = "readAll" =>
                  /\ run.driveUnit.status = "Nicht abgefragt"
                  /\ run.batteryManagement.status = "Nicht abgefragt"
        /\ out["main"].name = "readAll" =>
             /\ run.idx >= 9
             /\ \A i \in 1..8 : run.results[claimed[i]] # Unset

C18_FullRunWroteSixteen ==
  /\ out["main"].name = "readAll"
  /\ run.mode = "full"
  /\ \A i \in 1..16 : run.writes[i] = 1
  /\ run.idx = 17


\* C19: hexToTime on two bytes takes as minutes a byte below 60 when there is
\* one, and the two orders of the same hour and minute give the same time:
\* [14, 30] gives "14:30" and [30, 14] gives "14:30" as well.
C19_SwappedBytesSameTime ==
  (calc.fn = "hexToTime" /\ calc.done /\ Len(calc.data) = 2) =>
     /\ (calc.data[1] < 60 \/ calc.data[2] < 60) =>
           calc.ret[Len(calc.ret) - 1] \in {"0", "1", "2", "3", "4", "5"}
     /\ calc.data = <<14, 30>> => calc.ret = <<"1", "4", ":", "3", "0">>
     /\ calc.data = <<30, 14>> => calc.ret = <<"1", "4", ":", "3", "0">>

\* what hexToTime does with two bytes: the first byte is the hour whenever the
\* second is below 60
HexToTimeFirstByteIsHour ==
  (calc.fn = "hexToTime" /\ calc.done /\ Len(calc.data) = 2 /\ calc.data[2] < 60) =>
     calc.ret = padStart2(toString(calc.data[1], 10)) \o <<":">>
                  \o padStart2(toString(calc.data[2], 10))

\* C20: hexToVersion gives the first four bytes in decimal with dots for an
\* input of at least 4 bytes ([1,2,3,4] gives "1.2.3.4"); for exactly 2 bytes
\* "0.0.2.2" for [0x02,0x72], "5.9.2.0" for [0x02,0x20] and "b1.b2.0.0" for any
\* other pair; for fewer than 2 bytes a string of two-digit hexadecimal numbers
\* (empty for the empty input), and it never throws.
C20_HexToVersion ==
  (calc.fn = "hexToVersion" /\ calc.done) =>
     LET d == calc.data
         dec(b) == toString(b, 10)
     IN  /\ ~calc.threw
         /\ Len(d) >= 4 =>
              calc.ret = dec(d[1]) \o <<".">> \o dec(d[2]) \o <<".">>
                           \o dec(d[3]) \o <<".">> \o dec(d[4])
         /\ d = <<1, 2, 3, 4>> => calc.ret = <<"1", ".", "2", ".", "3", ".", "4">>
         /\ d = <<2, 114>> => calc.ret = <<"0", ".", "0", ".", "2", ".", "2">>
         /\ d = <<2, 32>> => calc.ret = <<"5", ".", "9", ".", "2", ".", "0">>
         /\ (Len(d) = 2 /\ d # <<2, 114>> /\ d # <<2, 32>>) =>
              calc.ret = dec(d[1]) \o <<".">> \o dec(d[2]) \o <<".", "0", ".", "0">>
         /\ d = << >> => calc.ret = << >>
         /\ Len(d) = 1 =>
              /\ Len(calc.ret) = 2
              /\ \A i \in 1..2 : \E k \in 1..16 : calc.ret[i] = Digits[k]
         /\ d = <<255>> => calc.ret = <<"f", "f">>

C20_HardwarePairSpecial ==
  /\ calc.fn = "hexToVersion"
  /\ calc.done
  /\ calc.data = <<2, 114>>
  /\ calc.ret = <<"0", ".", "0", ".", "2", ".", "2">>


UpperHex(b) == toUpperCase(padStart2(toString(b, 16)))

RECURSIVE UpperHexOf(_)
UpperHexOf(d) == IF d = << >> THEN << >> ELSE UpperHex(Head(d)) \o UpperHexOf(Tail(d))

\* C21: hexToSerialNumber(d) is "0x" followed by the upper-case two-digit
\* hexadecimal rendering of exactly the first min(len(d), 20) bytes of d,
\* whatever the bytes are; the bytes 37 FF D7 05 56 4E 31 30 46 44 20 00 give
\* "0x37FFD705564E313046442000".
C21_SerialIsHexOfFirst20 ==
  (calc.fn = "hexToSerialNumber" /\ calc.done) =>
     /\ calc.ret = <<"0", "x">> \o UpperHexOf(slice(calc.data, 0, 20))
     /\ calc.data = SerialPayload => calc.ret = <<"0", "x">> \o SerialPattern

\* what holds of hexToSerialNumber: on an Array that does not hold the expected
\* serial number the result is the rendering of the first 20 bytes
SerialOfArrayWithoutPattern ==
  (/\ calc.fn = "hexToSerialNumber"
   /\ calc.done
   /\ ~calc.isBuffer
   /\ ~includesStr(UpperHexOf(slice(calc.data, 0, 20)), SerialPattern)) =>
     calc.ret = <<"0", "x">> \o UpperHexOf(slice(calc.data, 0, 20))


\* what holds of hexToVersion: the statement of C20 for every Array argument
HexToVersionOfArray ==
  ~calc.isBuffer => C20_HexToVersion


\* C22: hexToArticleNumber drops the 0x00 bytes, removes at most one leading
\* character and only a non-digit one, and removes the trailing non-digit
\* characters; a leading digit stays: the bytes of "2345" give "2345".
C22_LeadingDigitKept ==
  (calc.fn = "hexToArticleNumber" /\ calc.done) =>
     LET clean == SelectSeq(calc.data, LAMBDA b : b # 0)
         ascii == [i \in 1..Len(clean) |-> fromAscii(clean[i])]
     IN  /\ calc.data = <<50, 51, 52, 53>> => calc.ret = <<"2", "3", "4", "5">>
         /\ (Len(ascii) > 0 /\ isDigit(ascii[1])) =>
               /\ Len(calc.ret) > 0
               /\ calc.ret[1] = ascii[1]
         /\ Len(calc.ret) > 0 => isDigit(calc.ret[Len(calc.ret)])

\* what holds of hexToArticleNumber: of the leading characters only a "2" is
\* removed, once; any other first character stays
ArticleNumberDropsLeadingTwo ==
  (calc.fn = "hexToArticleNumber" /\ calc.done) =>
     LET clean == SelectSeq(calc.data, LAMBDA b : b # 0)
         ascii == [i \in 1..Len(clean) |-> fromAscii(clean[i])]
     IN  calc.ret = stripTrailingNonDigits(IF Len(ascii) > 0 /\ ascii[1] = "2"
                                             THEN Tail(ascii) ELSE ascii)

\* C23: in both copies of the protocol helper hexToDate takes three bytes as
\* year after 2000, month, day and prints DD.MM.YYYY: [24, 6, 15] gives
\* "15.06.2024".
C23_DateYearMonthDay ==
  (calc.fn = "hexToDate" /\ calc.done /\ Len(calc.data) = 3) =>
     /\ calc.ret = padStart2(toString(calc.data[3], 10)) \o <<".">>
                     \o padStart2(toString(calc.data[2], 10)) \o <<".">>
                     \o toString(2000 + calc.data[1], 10)
     /\ calc.data = <<24, 6, 15>> =>
          calc.ret = <<"1", "5", ".", "0", "6", ".", "2", "0", "2", "4">>

\* what holds of hexToDate: the statement of C23 for src/backend/lib/protocols.js
DateYearMonthDayInBackend ==
  protocols = "backend/lib/protocols.js" => C23_DateYearMonthDay


\* C24: no decoder throws: a field read whose sendUdsRequest returned a
\* validated response returns a string, also for the component type, which is
\* looked up from byte 8 of the response; and no call of a hexTo* function
\* throws.
C24_DecodersNeverThrow ==
  /\ \A t \in Tasks :
       (out[t].name = "read" /\ udsRet[t].ok) => out[t].status = "returned"
  /\ (calc.done /\ calc.fn \in {"hexToSerialNumber", "hexToVersion", "hexToArticleNumber",
                               "hexToTime", "hexToDate"}) => ~calc.threw

\* what holds of the field reads: only the component type throws after a
\* validated response, and only when the response has no byte 8
OnlyComponentTypeThrows ==
  \A t \in Tasks :
    (out[t].name = "read" /\ udsRet[t].ok /\ out[t].status = "threw") =>
       /\ out[t].key = "componentType"
       /\ Len(udsRet[t].resp) <= 8


\* ------------------------------------------------------------------------
\* The command 'connect' of the command-line program, src/src/index.js, lines
\* 57-95, with readAllDisplayInfo, lines 100-111: tool.connect(device) on the
\* display that findBoschDisplay returned, then tool.performHandshake().
\* ------------------------------------------------------------------------
\* index.js, line 83: await tool.connect(device) on a fresh tool
CliConnect ==
  /\ out["main"] = NoOut
  /\ connect("main", BoschDisplay)

\* index.js, line 88, and readAllDisplayInfo, line 111: connect has returned,
\* await tool.performHandshake()
CliPerformHandshake ==
  /\ out["main"].name = "connect"
  /\ out["main"].status = "returned"
  /\ performHandshake("main")

CliNext ==
  \/ CliConnect
  \/ CliPerformHandshake
  \/ Poll("main")
  \/ DeviceGoSilent

CliSpec == Init /\ [][CliNext]_vars

\* C25: in a run of the command 'connect' one handshake request (00 00 01 01
\* ...) is written, by connect; none is written once connect has returned with
\* the session established.
C25_HandshakeWrittenOnce ==
  ~ /\ lastWrite.report = reportArray(createHandshakeFrame)
    /\ lastWrite.connectOk
    /\ lastWrite.hs = "ok"

\* ------------------------------------------------------------------------
\* Transport errors of a UDS transaction
\* ------------------------------------------------------------------------
\* the error of sendUdsRequest after hidDevice.write threw or wrote short
IsWriteFailure(m) ==
  /\ Len(m) >= 3
  /\ m[1] = "UDS-Request-Fehler: " /\ m[2] = "Sendefehler: " /\ m[3] = "Schreibfehler: "

\* the error of sendUdsRequest after readSync threw something other than
\* 'no data'
ReadFailure ==
  Wrap("UDS-Request-Fehler: ", Wrap("Empfangsfehler: ", Wrap("Lesefehler: ", DEV_IO)))

WriteFailureThrown ==
  \E t \in Tasks : IsWriteFailure(udsRet[t].err) /\ out[t].name = "read" /\ out[t].writes = 1

\* ------------------------------------------------------------------------
\* Where the read* methods take the field from
\* ------------------------------------------------------------------------
\* the number of bytes each read* method hands on, lines 168-364
FieldWidth(key) ==
  CASE key = "serialNumber"    -> 12
    [] key = "hardwareVersion" -> 4
    [] key = "softwareVersion" -> 4
    [] key = "productCode"     -> 6
    [] key = "articleNumber"   -> 10
    [] key = "componentType"   -> 1
    [] key = "currentTime"     -> 2
    [] OTHER                   -> 3

\* the field taken at the data start: offset 8 of a response longer than 8
\* bytes, offset 5 otherwise
FromDataStart(key, response) ==
  slice(response, dataStart(response), dataStart(response) + FieldWidth(key))

\* C28: every field read takes its bytes from the data start of the
\* validated response: a read whose request succeeded returns the bytes at
\* offset 8 when the response is longer than 8 bytes and at offset 5
\* otherwise, whatever the field.
C28_EveryReadUsesDataStart ==
  \A t \in Tasks :
    (out[t].name = "read" /\ udsRet[t].ok) =>
      /\ out[t].status = "returned"
      /\ out[t].value = FromDataStart(out[t].key, udsRet[t].resp)

\* readSerialNumber and readCurrentDate are the two methods that have the
\* fallback; the others cut at the fixed offset 8
OnlySerialAndDateUseDataStart ==
  \A key \in KeySet : \A f \in OddUdsFrames \cup {PositiveFor(FieldId(key))} :
    /\ key \in {"serialNumber", "currentDate"} => FieldData(key, f) = FromDataStart(key, f)
    /\ key \notin {"serialNumber", "currentDate"} => FieldData(key, f) = slice(f, 8, 8 + FieldWidth(key))

\* ------------------------------------------------------------------------
\* The two front ends as acceptors of a response frame
\* ------------------------------------------------------------------------
\* C29: for every inbound response frame the local path (sendUdsRequest with
\* isResponseSuccessful) and the browser path (readUdsDataHID) agree: the one
\* returns the frame exactly when the other resolves.
C29_AcceptorsAgree ==
  (calc.fn = "onResponse" /\ calc.done) =>
    (calc.ret.local <=> calc.ret.browser = "resolved")

\* the browser resolves on every frame that the local path returns unless
\* its listener throws on it; the converse fails on a zero length and on a
\* frame that ends with the identifier
LocalAcceptedIsResolvedOrUnsettled ==
  (calc.fn = "onResponse" /\ calc.done /\ calc.ret.local
     /\ protocols = "backend/lib/protocols.js") =>
    calc.ret.browser \in {"resolved", "unsettled"}

\* the frame 01 00 3D 00 22 62 02 42 01 is resolved by the browser's listener
\* and refused by isResponseSuccessful
ZeroLengthResolvedOnlyInBrowser ==
  /\ calc.fn = "onResponse" /\ calc.done
  /\ calc.data = <<1, 0, 61, 0, 34, 98, 2, 66, 1>>
  /\ protocols = "backend/lib/protocols.js"
  /\ ~calc.ret.local /\ calc.ret.browser = "resolved"

\* ------------------------------------------------------------------------
\* Drive unit and battery management in a full run
\* ------------------------------------------------------------------------
\* the report that carries the drive-unit request of transaction i (9..12)
DriveUnitRequest(i) ==
  reportArray(createUdsFrame(READ_DATA_BY_IDENTIFIER, SubId(i), << >>))

\* C30: in mode 'full' the four battery-management requests are the same
\* bytes as the four drive-unit requests (service 0x22 with F130, F1AC, F150,
\* F151); a display that answers every request by what the request says
\* answers them with the frames it has for the drive-unit identifiers, and
\* the two sub-records of the run end equal.
C30_BmsRequestsAreDriveUnitRequests ==
  /\ << SubId(9), SubId(10), SubId(11), SubId(12) >> =
       << <<241, 48>>, <<241, 172>>, <<241, 80>>, <<241, 81>> >>
  /\ (op["main"].name = "readAll" /\ tx["main"].st = "wait" /\ run.idx \in 13..16) =>
       /\ lastWrite.report = DriveUnitRequest(run.idx - 4)
       /\ tx["main"].timeout = RunTimeout(run.idx - 4)
  /\ (faults = 0 /\ consumed["main"].how = "frame" /\ run.idx \in 14..17
        /\ op["main"].name = "readAll") =>
       consumed["main"].frame = PositiveFor(SubId(run.idx - 5))
  /\ (out["main"].name = "readAll" /\ run.idx = 17 /\ faults = 0 /\ ~silent) =>
       run.batteryManagement = run.driveUnit

C30_FullRunBothAvailable ==
  /\ out["main"].name = "readAll" /\ run.idx = 17 /\ faults = 0 /\ ~silent
  /\ run.driveUnit.status = "Verfuegbar"
  /\ run.batteryManagement.status = "Verfuegbar"
  /\ \A k \in 1..4 : run.batteryManagement.fields[SubKeys[k]] = "value"

\* ------------------------------------------------------------------------
\* The web application: the page (src/unnamed/part_003) of each client and
\* the server (src/backend/index.js) they talk to over socket.io
\* ------------------------------------------------------------------------
toolVarsAll == << boschVars, hid, calc >>

\* part_003, lines 131-140: the filter handed to navigator.hid.requestDevice
WebHidProductIds == {386, 341, 343, 392, 403, 402, 419}
requestDeviceFilter(d) ==
  /\ d.vendorId = VENDOR_ID
  /\ d.productId \in WebHidProductIds

\* the HID devices that may be attached to the machine of a client
AttachedDevices ==
  { [vendorId |-> VENDOR_ID, productId |-> p] : p \in {341, 386, 419} }
    \cup { [vendorId |-> 1133, productId |-> 341] }

\* index.js, line 153: the validation of 'connect-display'
validDisplay(d) == ~(d.vendorId # 4236 \/ d.productId # 341)

\* io.on('connection'), line 143
Connection(c) ==
  /\ c \notin srv.sockets
  /\ srv' = [srv EXCEPT !.sockets = @ \cup {c}]
  /\ UNCHANGED toolVarsAll

\* the page: connectDisplay, part_003 lines 116-193: the user picks a device
\* that passes the filter, the page opens it and emits 'connect-display'
connectDisplay(c, d) ==
  /\ c \in srv.sockets
  /\ srv.inbox[c] = NoEvent
  /\ d \in AttachedDevices
  /\ requestDeviceFilter(d)
  /\ srv' = [srv EXCEPT !.inbox[c] = [ev |-> "connect-display", device |-> d]]
  /\ UNCHANGED toolVarsAll

\* socket.on('connect-display'), index.js lines 146-173
OnConnectDisplay(c) ==
  /\ c \in srv.sockets
  /\ srv.inbox[c].ev = "connect-display"
  /\ srv' = IF validDisplay(srv.inbox[c].device)
              THEN [srv EXCEPT !.isConnected = TRUE,
                               !.sent[c] = [ev |-> "display-connected", re |-> "connect-display",
                                            device |-> srv.inbox[c].device],
                               !.own[c] = TRUE,
                               !.by = c,
                               !.inbox[c] = NoEvent]
              ELSE [srv EXCEPT !.sent[c] = [ev |-> "display-error", re |-> "connect-display",
                                            device |-> srv.inbox[c].device],
                               !.own[c] = FALSE,
                               !.inbox[c] = NoEvent]
  /\ UNCHANGED toolVarsAll

\* the page: readDisplayInfo, part_003 lines 236-258
readDisplayInfo(c) ==
  /\ c \in srv.sockets
  /\ srv.inbox[c] = NoEvent
  /\ srv' = [srv EXCEPT !.inbox[c] = [ev |-> "read-display-info", device |-> NullDevice]]
  /\ UNCHANGED toolVarsAll

\* socket.on('read-display-info'), index.js lines 175-195
OnReadDisplayInfo(c) ==
  /\ c \in srv.sockets
  /\ srv.inbox[c].ev = "read-display-info"
  /\ srv' = [srv EXCEPT !.sent[c] = [ev |-> IF ~srv.isConnected THEN "display-error"
                                            ELSE "request-display-data",
                                     re |-> "read-display-info", device |-> NullDevice],
                        !.inbox[c] = NoEvent]
  /\ UNCHANGED toolVarsAll

\* the page: disconnectDisplay, part_003 lines 214-234
disconnectDisplay(c) ==
  /\ c \in srv.sockets
  /\ srv.inbox[c] = NoEvent
  /\ srv' = [srv EXCEPT !.inbox[c] = [ev |-> "disconnect-display", device |-> NullDevice]]
  /\ UNCHANGED toolVarsAll

\* socket.on('disconnect-display'), index.js lines 215-233
OnDisconnectDisplay(c) ==
  /\ c \in srv.sockets
  /\ srv.inbox[c].ev = "disconnect-display"
  /\ srv' = [srv EXCEPT !.isConnected = FALSE,
                        !.sent[c] = [ev |-> "display-disconnected", re |-> "disconnect-display",
                                     device |-> NullDevice],
                        !.own[c] = FALSE,
                        !.inbox[c] = NoEvent]
  /\ UNCHANGED toolVarsAll

\* socket.on('disconnect'), index.js lines 235-237: the client has gone (page
\* closed, connection lost); the handler logs and nothing else
Disconnect(c) ==
  /\ c \in srv.sockets
  /\ srv' = [srv EXCEPT !.sockets = @ \ {c},
                        !.inbox[c] = NoEvent,
                        !.sent[c] = NoSent,
                        !.own[c] = FALSE]
  /\ UNCHANGED toolVarsAll

\* GET /api/health, index.js lines 245-251
GetHealth ==
  /\ srv' = [srv EXCEPT !.health = [asked |-> TRUE, connected |-> srv.isConnected,
                                    byPresent |-> srv.by \in srv.sockets]]
  /\ UNCHANGED toolVarsAll

ServerNext ==
  \/ \E c \in Clients : Connection(c)
  \/ \E c \in Clients : \E d \in AttachedDevices : connectDisplay(c, d)
  \/ \E c \in Clients : OnConnectDisplay(c)
  \/ \E c \in Clients : readDisplayInfo(c)
  \/ \E c \in Clients : OnReadDisplayInfo(c)
  \/ \E c \in Clients : disconnectDisplay(c)
  \/ \E c \in Clients : OnDisconnectDisplay(c)
  \/ \E c \in Clients : Disconnect(c)
  \/ GetHealth

ServerSpec == Init /\ [][ServerNext]_vars

\* C31: every device that the filter of the page lets the user select is
\* accepted by the server: the answer to a 'connect-display' of the page is
\* 'display-connected'.
C31_SelectableIsAccepted ==
  \A c \in Clients :
    srv.sent[c].re = "connect-display" => srv.sent[c].ev = "display-connected"

\* what holds: the server accepts the product id 0x155 and no other
OnlyProduct155Accepted ==
  \A c \in Clients :
    srv.sent[c].re = "connect-display" =>
      (srv.sent[c].ev = "display-connected" <=> srv.sent[c].device.productId = 341)

\* ------------------------------------------------------------------------
\* The status of the sub-records
\* ------------------------------------------------------------------------
\* a sub-record whose four reads are through
SubRead(sub) == \A k \in 1..4 : sub.fields[SubKeys[k]] # Unset

SubTimedOut(sub) == \E k \in 1..4 : sub.fields[SubKeys[k]] = "Nicht angeschlossen (Timeout)"

\* C32: readDriveUnitInfo and readBatteryManagementInfo report the status
\* 'Nicht angeschlossen' exactly when one of their four reads timed out and
\* 'Verfuegbar' exactly when none did, also when all four failed otherwise and
\* no field holds a value.
C32_StatusFollowsTimeouts ==
  (calc.fn = "readSubInfo" /\ calc.done) =>
    LET timedOut == \E k \in 1..4 : calc.data[k] = 1
    IN  /\ calc.ret.status \in {"Nicht angeschlossen", "Verfuegbar"}
        /\ calc.ret.status = "Nicht angeschlossen" <=> timedOut
        /\ calc.ret.status = "Verfuegbar" <=> ~timedOut
        /\ \A k \in 1..4 :
             calc.ret.fields[SubKeys[k]] = "Nicht angeschlossen (Timeout)" <=> calc.data[k] = 1

C32_AvailableWithoutAnyValue ==
  /\ calc.fn = "readSubInfo" /\ calc.done
  /\ \A k \in 1..4 : calc.data[k] \in {2, 3}
  /\ calc.ret.status = "Verfuegbar"
  /\ \A k \in 1..4 : calc.ret.fields[SubKeys[k]] = "Fehler"

\* the same in the runs of readAllInformation: the status of a sub-record
\* that was read follows the timeout markers of its fields
RunStatusFollowsTimeouts ==
  \A sub \in {run.driveUnit, run.batteryManagement} :
    SubRead(sub) =>
      /\ sub.status \in {"Nicht angeschlossen", "Verfuegbar"}
      /\ sub.status = "Nicht angeschlossen" <=> SubTimedOut(sub)
      /\ sub.hasTimeout <=> SubTimedOut(sub)

\* ------------------------------------------------------------------------
\* Sessions of the server
\* ------------------------------------------------------------------------
\* C33: the server answers 'read-display-info' of a socket with
\* 'request-display-data' exactly when that socket has sent a valid
\* 'connect-display' and no 'disconnect-display' since, whatever the other
\* clients did; and /api/health does not report connected once the socket of
\* the client that connected has gone.
C33_SessionPerSocket ==
  /\ \A c \in Clients :
       srv.sent[c].re = "read-display-info" =>
         (srv.sent[c].ev = "request-display-data" <=> srv.own[c])
  /\ (srv.health.asked /\ srv.health.connected) => srv.health.byPresent

\* what holds: one flag for all sockets decides the answer
OneFlagDecides ==
  [][\A c \in Clients :
       (srv.inbox[c].ev = "read-display-info" /\ srv'.inbox[c] = NoEvent /\ c \in srv'.sockets) =>
         (srv'.sent[c].ev = "request-display-data" <=> srv.isConnected)]_vars

\* a client that never sent 'connect-display' gets 'request-display-data'
ReadAcceptedForOtherClient ==
  \E c \in Clients :
    /\ srv.sent[c].ev = "request-display-data"
    /\ ~srv.own[c]
    /\ srv.by # c

\* /api/health reports connected after the client that connected has gone
HealthConnectedWithoutClient ==
  /\ srv.health.asked /\ srv.health.connected
  /\ srv.sockets = {}

\* ------------------------------------------------------------------------
\* The 'inputreport' listeners of the browser transactions
\* ------------------------------------------------------------------------
\* no handshake and no read is waiting for a report
HidSettled == hid.pc \notin {"wait", "hsWait"}

\* C34: whenever performHandshakeHID or readUdsDataHID has settled, with a
\* value, a protocol error or a timeout, the listener it registered is
\* removed: between transactions none is registered, and never more than one.
C34_ListenerRemovedWhenSettled ==
  /\ hid.listeners <= 1
  /\ HidSettled => hid.listeners = 0

\* what holds: a listener stays behind only when the timer settled the
\* transaction
ListenerLeftOnlyByTimeout ==
  /\ hid.listeners <= 1
  /\ (HidSettled /\ hid.listeners = 1) =>
       /\ hid.pc = "done" /\ hid.status = "threw"
       /\ \/ hid.err = <<"Handshake Timeout">>
          \/ hid.err = Wrap("WebHID Display-Info-Lesefehler: ", <<"UDS Timeout">>)

\* ------------------------------------------------------------------------
\* HID handles of the tool
\* ------------------------------------------------------------------------
\* the latest call that ended was a connect that got past the device check
\* and threw from its catch block
ConnectThrew ==
  /\ out["main"].name = "connect"
  /\ out["main"].status = "threw"
  /\ out["main"].err # <<"Das angegebene Geraet ist kein Bosch eBike Display!">>

\* C35: after connect() has thrown, no handle that this call opened is still
\* open, and a connect() on a tool that holds an open transport does not
\* leave the earlier handle open: at most one handle per tool is open.
C35_NoHandleLeftOpen ==
  /\ Cardinality(osOpen) <= 1
  /\ ConnectThrew => hidWrapper \notin osOpen

\* the handshake of a connect failed: its handle is open, the tool is marked
\* disconnected
HandleOpenAfterHandshakeFailure ==
  /\ ConnectThrew
  /\ hidWrapper \in osOpen
  /\ ~isConnected

\* a second connect replaced the wrapper of the first one, both handles open
TwoHandlesOpen ==
  /\ Cardinality(osOpen) = 2
  /\ hidWrapper = 2
  /\ 1 \in osOpen

\* what holds: a connect whose open failed leaves no handle of its own
OpenFailureLeavesNoHandle ==
  (ConnectThrew /\ out["main"].err =
      Wrap("Verbindungsfehler: ", Wrap("HID-Verbindungsfehler: ", DEV_OPEN)))
    => hidWrapper # 0 /\ hidWrapper \notin osOpen /\ ~wrappers[hidWrapper].hidDevice

WriteRequestIsNull ==
  /\ calc.fn = "identifyDataIdentifier" /\ calc.done
  /\ calc.dev = "request"
  /\ calc.svc = WRITE_DATA_BY_IDENTIFIER
  /\ calc.ret.dataId = NullId

HandshakeIsNull ==
  /\ calc.fn = "identifyDataIdentifier" /\ calc.done
  /\ calc.dev = "handshake"
  /\ calc.ret.dataId = NullId

\* frames shorter than 8 bytes are null, whatever they begin with
ShortFrameIsNull ==
  (calc.fn = "identifyDataIdentifier" /\ calc.done /\ calc.dev = "frame") =>
    (calc.ret.dataId = NullId <=> Len(calc.data) < 8)

====
